---- MODULE Spec2Model ----
(***************************************************************************)
(* Model of the NeuroSim-University question answering core:               *)
(*   src/src/knowledge_graph.py  KnowledgeGraph (typed directed graph)     *)
(*   src/src/reasoner.py         SymbolicReasoner (rule handlers)          *)
(* The graph is a networkx DiGraph: one attribute dictionary per ordered   *)
(* pair of nodes, adjacency kept in insertion order.                       *)
(***************************************************************************)
EXTENDS Integers, Sequences, FiniteSets, TLC

(***************************************************************************)
(* Bounds of the model.                                                    *)
(***************************************************************************)
NumDepts == 2
NumFaculty == 2
NumCourses == 3
MaxPrereqPairs == 2

(***************************************************************************)
(* Strings.  A string of the program is a TLA+ string; the identifiers,    *)
(* codes and names of the documents are taken from the tables below.       *)
(* None is Python's None, Absent marks a key that a mapping does not have. *)
(***************************************************************************)
None == "<None>"
Absent == "<absent>"
\* None where a node dictionary is expected (Optional[dict]).
NoNode == [none |-> TRUE]

DeptIdTable == <<"dept_cs", "dept_math", "dept_phys", "dept_ee">>
DeptCodeTable == <<"CS", "MATH", "PHYS", "EE">>
FacultyIdTable == <<"f_smith", "f_garcia", "f_lee", "f_chen">>
FacultyNameTable == <<"Dr. Alice Smith", "Dr. Maria Garcia", "Dr. David Lee", "Dr. Wei Chen">>
CourseIdTable == <<"cs101", "cs201", "cs301", "cs401", "cs402">>
CourseCodeTable == <<"CS101", "CS201", "CS301", "CS401", "CS402">>
CourseAltCodeTable == <<"PROG1", "DATA2", "ALGO3", "MLRN4", "NLPR5">>

DeptIds == {DeptIdTable[i] : i \in 1..NumDepts}
FacultyIds == {FacultyIdTable[i] : i \in 1..NumFaculty}
CourseIds == {CourseIdTable[i] : i \in 1..NumCourses}
\* An id that no entry of a document defines.
MissingId == "ghost"
Universe == DeptIds \cup FacultyIds \cup CourseIds \cup {MissingId}

(***************************************************************************)
(* Strings as character sequences.  CharTable spells every string of the   *)
(* model; str.upper, str.lower, str.strip, the `in` test on strings and    *)
(* the regular expression of _normalize_faculty_name work on the spelling. *)
(***************************************************************************)
CharTable ==
    "" :> <<>> @@
    "Garcia" :> <<"G", "a", "r", "c", "i", "a">> @@
    "Can I take CS401 if I've only completed CS101 and MATH101?" :> <<"C", "a", "n", " ", "I", " ", "t", "a", "k", "e", " ", "C", "S", "4", "0", "1", " ", "i", "f", " ", "I", "'", "v", "e", " ", "o", "n", "l", "y", " ", "c", "o", "m", "p", "l", "e", "t", "e", "d", " ", "C", "S", "1", "0", "1", " ", "a", "n", "d", " ", "M", "A", "T", "H", "1", "0", "1", "?">> @@
    "can i take cs201 if i completed cs101" :> <<"c", "a", "n", " ", "i", " ", "t", "a", "k", "e", " ", "c", "s", "2", "0", "1", " ", "i", "f", " ", "i", " ", "c", "o", "m", "p", "l", "e", "t", "e", "d", " ", "c", "s", "1", "0", "1">> @@
    "Can a student take CS402 if they completed CS401?" :> <<"C", "a", "n", " ", "a", " ", "s", "t", "u", "d", "e", "n", "t", " ", "t", "a", "k", "e", " ", "C", "S", "4", "0", "2", " ", "i", "f", " ", "t", "h", "e", "y", " ", "c", "o", "m", "p", "l", "e", "t", "e", "d", " ", "C", "S", "4", "0", "1", "?">> @@
    "math101" :> <<"m", "a", "t", "h", "1", "0", "1">> @@
    "Cs101" :> <<"C", "s", "1", "0", "1">> @@
    "all prerequisites for " :> <<"a", "l", "l", " ", "p", "r", "e", "r", "e", "q", "u", "i", "s", "i", "t", "e", "s", " ", "f", "o", "r", " ">> @@
    "all prerequisites for CS101" :> <<"a", "l", "l", " ", "p", "r", "e", "r", "e", "q", "u", "i", "s", "i", "t", "e", "s", " ", "f", "o", "r", " ", "C", "S", "1", "0", "1">> @@
    "all prerequisites for CS201" :> <<"a", "l", "l", " ", "p", "r", "e", "r", "e", "q", "u", "i", "s", "i", "t", "e", "s", " ", "f", "o", "r", " ", "C", "S", "2", "0", "1">> @@
    "all prerequisites for CS301" :> <<"a", "l", "l", " ", "p", "r", "e", "r", "e", "q", "u", "i", "s", "i", "t", "e", "s", " ", "f", "o", "r", " ", "C", "S", "3", "0", "1">> @@
    "all prerequisites for CS401" :> <<"a", "l", "l", " ", "p", "r", "e", "r", "e", "q", "u", "i", "s", "i", "t", "e", "s", " ", "f", "o", "r", " ", "C", "S", "4", "0", "1">> @@
    "all prerequisites for CS402" :> <<"a", "l", "l", " ", "p", "r", "e", "r", "e", "q", "u", "i", "s", "i", "t", "e", "s", " ", "f", "o", "r", " ", "C", "S", "4", "0", "2">> @@
    "all prerequisites for PROG1" :> <<"a", "l", "l", " ", "p", "r", "e", "r", "e", "q", "u", "i", "s", "i", "t", "e", "s", " ", "f", "o", "r", " ", "P", "R", "O", "G", "1">> @@
    "all prerequisites for DATA2" :> <<"a", "l", "l", " ", "p", "r", "e", "r", "e", "q", "u", "i", "s", "i", "t", "e", "s", " ", "f", "o", "r", " ", "D", "A", "T", "A", "2">> @@
    "all prerequisites for ALGO3" :> <<"a", "l", "l", " ", "p", "r", "e", "r", "e", "q", "u", "i", "s", "i", "t", "e", "s", " ", "f", "o", "r", " ", "A", "L", "G", "O", "3">> @@
    "all prerequisites for MLRN4" :> <<"a", "l", "l", " ", "p", "r", "e", "r", "e", "q", "u", "i", "s", "i", "t", "e", "s", " ", "f", "o", "r", " ", "M", "L", "R", "N", "4">> @@
    "all prerequisites for NLPR5" :> <<"a", "l", "l", " ", "p", "r", "e", "r", "e", "q", "u", "i", "s", "i", "t", "e", "s", " ", "f", "o", "r", " ", "N", "L", "P", "R", "5">> @@
    "all prerequisites for XYZ999" :> <<"a", "l", "l", " ", "p", "r", "e", "r", "e", "q", "u", "i", "s", "i", "t", "e", "s", " ", "f", "o", "r", " ", "X", "Y", "Z", "9", "9", "9">> @@
    "Question: " :> <<"Q", "u", "e", "s", "t", "i", "o", "n", ":", " ">> @@
    "Respond with only the JSON object, no additional text." :> <<"R", "e", "s", "p", "o", "n", "d", " ", "w", "i", "t", "h", " ", "o", "n", "l", "y", " ", "t", "h", "e", " ", "J", "S", "O", "N", " ", "o", "b", "j", "e", "c", "t", ",", " ", "n", "o", " ", "a", "d", "d", "i", "t", "i", "o", "n", "a", "l", " ", "t", "e", "x", "t", ".">> @@
    "facultie" :> <<"f", "a", "c", "u", "l", "t", "i", "e">> @@
    "cs101 vs xyz999" :> <<"c", "s", "1", "0", "1", " ", "v", "s", " ", "x", "y", "z", "9", "9", "9">> @@
    "quantum gravity" :> <<"q", "u", "a", "n", "t", "u", "m", " ", "g", "r", "a", "v", "i", "t", "y">> @@
    "say " :> <<"s", "a", "y", " ">> @@
    "What are the prerequisites for CS201?" :> <<"W", "h", "a", "t", " ", "a", "r", "e", " ", "t", "h", "e", " ", "p", "r", "e", "r", "e", "q", "u", "i", "s", "i", "t", "e", "s", " ", "f", "o", "r", " ", "C", "S", "2", "0", "1", "?">> @@
    "All prerequisites for cs201" :> <<"A", "l", "l", " ", "p", "r", "e", "r", "e", "q", "u", "i", "s", "i", "t", "e", "s", " ", "f", "o", "r", " ", "c", "s", "2", "0", "1">> @@
    "all prerequisites for machine learning" :> <<"a", "l", "l", " ", "p", "r", "e", "r", "e", "q", "u", "i", "s", "i", "t", "e", "s", " ", "f", "o", "r", " ", "m", "a", "c", "h", "i", "n", "e", " ", "l", "e", "a", "r", "n", "i", "n", "g">> @@
    "Compare CS201 and CS301" :> <<"C", "o", "m", "p", "a", "r", "e", " ", "C", "S", "2", "0", "1", " ", "a", "n", "d", " ", "C", "S", "3", "0", "1">> @@
    "CS101 vs XYZ999" :> <<"C", "S", "1", "0", "1", " ", "v", "s", " ", "X", "Y", "Z", "9", "9", "9">> @@
    "Who teaches CS101?" :> <<"W", "h", "o", " ", "t", "e", "a", "c", "h", "e", "s", " ", "C", "S", "1", "0", "1", "?">> @@
    "How many courses are there?" :> <<"H", "o", "w", " ", "m", "a", "n", "y", " ", "c", "o", "u", "r", "s", "e", "s", " ", "a", "r", "e", " ", "t", "h", "e", "r", "e", "?">> @@
    "how many faculties" :> <<"h", "o", "w", " ", "m", "a", "n", "y", " ", "f", "a", "c", "u", "l", "t", "i", "e", "s">> @@
    "Tell me about CS101" :> <<"T", "e", "l", "l", " ", "m", "e", " ", "a", "b", "o", "u", "t", " ", "C", "S", "1", "0", "1">> @@
    "Tell me about Dr. Smith" :> <<"T", "e", "l", "l", " ", "m", "e", " ", "a", "b", "o", "u", "t", " ", "D", "r", ".", " ", "S", "m", "i", "t", "h">> @@
    "Who is the head of the CS department?" :> <<"W", "h", "o", " ", "i", "s", " ", "t", "h", "e", " ", "h", "e", "a", "d", " ", "o", "f", " ", "t", "h", "e", " ", "C", "S", " ", "d", "e", "p", "a", "r", "t", "m", "e", "n", "t", "?">> @@
    "What courses require CS101?" :> <<"W", "h", "a", "t", " ", "c", "o", "u", "r", "s", "e", "s", " ", "r", "e", "q", "u", "i", "r", "e", " ", "C", "S", "1", "0", "1", "?">> @@
    "Can I take CS301 if I completed CS101 and CS201?" :> <<"C", "a", "n", " ", "I", " ", "t", "a", "k", "e", " ", "C", "S", "3", "0", "1", " ", "i", "f", " ", "I", " ", "c", "o", "m", "p", "l", "e", "t", "e", "d", " ", "C", "S", "1", "0", "1", " ", "a", "n", "d", " ", "C", "S", "2", "0", "1", "?">> @@
    "list graduate courses" :> <<"l", "i", "s", "t", " ", "g", "r", "a", "d", "u", "a", "t", "e", " ", "c", "o", "u", "r", "s", "e", "s">> @@
    "courses in math" :> <<"c", "o", "u", "r", "s", "e", "s", " ", "i", "n", " ", "m", "a", "t", "h">> @@
    "who works on machine learning" :> <<"w", "h", "o", " ", "w", "o", "r", "k", "s", " ", "o", "n", " ", "m", "a", "c", "h", "i", "n", "e", " ", "l", "e", "a", "r", "n", "i", "n", "g">> @@
    "find courses about data" :> <<"f", "i", "n", "d", " ", "c", "o", "u", "r", "s", "e", "s", " ", "a", "b", "o", "u", "t", " ", "d", "a", "t", "a">> @@
    "prerequisites for XYZ999" :> <<"p", "r", "e", "r", "e", "q", "u", "i", "s", "i", "t", "e", "s", " ", "f", "o", "r", " ", "X", "Y", "Z", "9", "9", "9">> @@
    "Quantum Gravity" :> <<"Q", "u", "a", "n", "t", "u", "m", " ", "G", "r", "a", "v", "i", "t", "y">> @@
    "\"hello\"" :> <<"\"", "h", "e", "l", "l", "o", "\"">> @@
    "say \"hi\" now" :> <<"s", "a", "y", " ", "\"", "h", "i", "\"", " ", "n", "o", "w">> @@
    "   " :> <<" ", " ", " ">> @@
    "computer science" :> <<"c", "o", "m", "p", "u", "t", "e", "r", " ", "s", "c", "i", "e", "n", "c", "e">> @@
    "computer" :> <<"c", "o", "m", "p", "u", "t", "e", "r">> @@
    "comp" :> <<"c", "o", "m", "p">> @@
    "mathematics" :> <<"m", "a", "t", "h", "e", "m", "a", "t", "i", "c", "s">> @@
    "maths" :> <<"m", "a", "t", "h", "s">> @@
    "phys" :> <<"p", "h", "y", "s">> @@
    "electrical engineering" :> <<"e", "l", "e", "c", "t", "r", "i", "c", "a", "l", " ", "e", "n", "g", "i", "n", "e", "e", "r", "i", "n", "g">> @@
    "electrical" :> <<"e", "l", "e", "c", "t", "r", "i", "c", "a", "l">> @@
    "ee" :> <<"e", "e">> @@
    "Question:" :> <<"Q", "u", "e", "s", "t", "i", "o", "n", ":">> @@
    "no prerequisites" :> <<"n", "o", " ", "p", "r", "e", "r", "e", "q", "u", "i", "s", "i", "t", "e", "s">> @@
    "'" :> <<"'">> @@
    "." :> <<".">> @@
    "a" :> <<"a">> @@
    "about" :> <<"a", "b", "o", "u", "t">> @@
    "ai" :> <<"a", "i">> @@
    "all" :> <<"a", "l", "l">> @@
    "and" :> <<"a", "n", "d">> @@
    "any" :> <<"a", "n", "y">> @@
    "are" :> <<"a", "r", "e">> @@
    "artificial" :> <<"a", "r", "t", "i", "f", "i", "c", "i", "a", "l">> @@
    "between" :> <<"b", "e", "t", "w", "e", "e", "n">> @@
    "by" :> <<"b", "y">> @@
    "can" :> <<"c", "a", "n">> @@
    "chain" :> <<"c", "h", "a", "i", "n">> @@
    "compare" :> <<"c", "o", "m", "p", "a", "r", "e">> @@
    "describe" :> <<"d", "e", "s", "c", "r", "i", "b", "e">> @@
    "details" :> <<"d", "e", "t", "a", "i", "l", "s">> @@
    "difference" :> <<"d", "i", "f", "f", "e", "r", "e", "n", "c", "e">> @@
    "do" :> <<"d", "o">> @@
    "does" :> <<"d", "o", "e", "s">> @@
    "dr" :> <<"d", "r">> @@
    "er" :> <<"e", "r">> @@
    "facult" :> <<"f", "a", "c", "u", "l", "t">> @@
    "find" :> <<"f", "i", "n", "d">> @@
    "for" :> <<"f", "o", "r">> @@
    "having" :> <<"h", "a", "v", "i", "n", "g">> @@
    "head" :> <<"h", "e", "a", "d">> @@
    "how" :> <<"h", "o", "w">> @@
    "i" :> <<"i">> @@
    "ies" :> <<"i", "e", "s">> @@
    "in" :> <<"i", "n">> @@
    "including" :> <<"i", "n", "c", "l", "u", "d", "i", "n", "g">> @@
    "info" :> <<"i", "n", "f", "o">> @@
    "information" :> <<"i", "n", "f", "o", "r", "m", "a", "t", "i", "o", "n">> @@
    "instructor" :> <<"i", "n", "s", "t", "r", "u", "c", "t", "o", "r">> @@
    "intelligence" :> <<"i", "n", "t", "e", "l", "l", "i", "g", "e", "n", "c", "e">> @@
    "is" :> <<"i", "s">> @@
    "level" :> <<"l", "e", "v", "e", "l">> @@
    "list" :> <<"l", "i", "s", "t">> @@
    "look" :> <<"l", "o", "o", "k">> @@
    "machine" :> <<"m", "a", "c", "h", "i", "n", "e">> @@
    "many" :> <<"m", "a", "n", "y">> @@
    "me" :> <<"m", "e">> @@
    "mining" :> <<"m", "i", "n", "i", "n", "g">> @@
    "need" :> <<"n", "e", "e", "d">> @@
    "no" :> <<"n", "o">> @@
    "number" :> <<"n", "u", "m", "b", "e", "r">> @@
    "of" :> <<"o", "f">> @@
    "offered" :> <<"o", "f", "f", "e", "r", "e", "d">> @@
    "on" :> <<"o", "n">> @@
    "out" :> <<"o", "u", "t">> @@
    "professor" :> <<"p", "r", "o", "f", "e", "s", "s", "o", "r">> @@
    "related" :> <<"r", "e", "l", "a", "t", "e", "d">> @@
    "require" :> <<"r", "e", "q", "u", "i", "r", "e">> @@
    "requirements" :> <<"r", "e", "q", "u", "i", "r", "e", "m", "e", "n", "t", "s">> @@
    "research" :> <<"r", "e", "s", "e", "a", "r", "c", "h">> @@
    "s" :> <<"s">> @@
    "search" :> <<"s", "e", "a", "r", "c", "h">> @@
    "take" :> <<"t", "a", "k", "e">> @@
    "taught" :> <<"t", "a", "u", "g", "h", "t">> @@
    "teach" :> <<"t", "e", "a", "c", "h">> @@
    "teache" :> <<"t", "e", "a", "c", "h", "e">> @@
    "tell" :> <<"t", "e", "l", "l">> @@
    "the" :> <<"t", "h", "e">> @@
    "there" :> <<"t", "h", "e", "r", "e">> @@
    "to" :> <<"t", "o">> @@
    "total" :> <<"t", "o", "t", "a", "l">> @@
    "transitive" :> <<"t", "r", "a", "n", "s", "i", "t", "i", "v", "e">> @@
    "vs" :> <<"v", "s">> @@
    "what" :> <<"w", "h", "a", "t">> @@
    "which" :> <<"w", "h", "i", "c", "h">> @@
    "who" :> <<"w", "h", "o">> @@
    "with" :> <<"w", "i", "t", "h">> @@
    "working" :> <<"w", "o", "r", "k", "i", "n", "g">> @@
    "y" :> <<"y">> @@
    "ghost" :> <<"g", "h", "o", "s", "t">> @@
    "Databases" :> <<"D", "a", "t", "a", "b", "a", "s", "e", "s">> @@
    "Graduate" :> <<"G", "r", "a", "d", "u", "a", "t", "e">> @@
    "learning" :> <<"l", "e", "a", "r", "n", "i", "n", "g">> @@
    "data" :> <<"d", "a", "t", "a">> @@
    "course" :> <<"c", "o", "u", "r", "s", "e">> @@
    "courses" :> <<"c", "o", "u", "r", "s", "e", "s">> @@
    "Courses" :> <<"C", "o", "u", "r", "s", "e", "s">> @@
    "faculty" :> <<"f", "a", "c", "u", "l", "t", "y">> @@
    "department" :> <<"d", "e", "p", "a", "r", "t", "m", "e", "n", "t">> @@
    "departments" :> <<"d", "e", "p", "a", "r", "t", "m", "e", "n", "t", "s">> @@
    "prerequisite" :> <<"p", "r", "e", "r", "e", "q", "u", "i", "s", "i", "t", "e">> @@
    "prerequisites" :> <<"p", "r", "e", "r", "e", "q", "u", "i", "s", "i", "t", "e", "s">> @@
    "student" :> <<"s", "t", "u", "d", "e", "n", "t">> @@
    "dept_cs" :> <<"d", "e", "p", "t", "_", "c", "s">> @@
    "dept_math" :> <<"d", "e", "p", "t", "_", "m", "a", "t", "h">> @@
    "dept_phys" :> <<"d", "e", "p", "t", "_", "p", "h", "y", "s">> @@
    "dept_ee" :> <<"d", "e", "p", "t", "_", "e", "e">> @@
    "CS" :> <<"C", "S">> @@
    "MATH" :> <<"M", "A", "T", "H">> @@
    "PHYS" :> <<"P", "H", "Y", "S">> @@
    "EE" :> <<"E", "E">> @@
    "cs" :> <<"c", "s">> @@
    "math" :> <<"m", "a", "t", "h">> @@
    "f_smith" :> <<"f", "_", "s", "m", "i", "t", "h">> @@
    "f_garcia" :> <<"f", "_", "g", "a", "r", "c", "i", "a">> @@
    "f_lee" :> <<"f", "_", "l", "e", "e">> @@
    "f_chen" :> <<"f", "_", "c", "h", "e", "n">> @@
    "Dr. Alice Smith" :> <<"D", "r", ".", " ", "A", "l", "i", "c", "e", " ", "S", "m", "i", "t", "h">> @@
    "Dr. Maria Garcia" :> <<"D", "r", ".", " ", "M", "a", "r", "i", "a", " ", "G", "a", "r", "c", "i", "a">> @@
    "Dr. David Lee" :> <<"D", "r", ".", " ", "D", "a", "v", "i", "d", " ", "L", "e", "e">> @@
    "Dr. Wei Chen" :> <<"D", "r", ".", " ", "W", "e", "i", " ", "C", "h", "e", "n">> @@
    "Smith" :> <<"S", "m", "i", "t", "h">> @@
    "smith" :> <<"s", "m", "i", "t", "h">> @@
    "Dr. Smith" :> <<"D", "r", ".", " ", "S", "m", "i", "t", "h">> @@
    "Prof. Garcia" :> <<"P", "r", "o", "f", ".", " ", "G", "a", "r", "c", "i", "a">> @@
    "Professor Smith" :> <<"P", "r", "o", "f", "e", "s", "s", "o", "r", " ", "S", "m", "i", "t", "h">> @@
    "Prof" :> <<"P", "r", "o", "f">> @@
    "Dr." :> <<"D", "r", ".">> @@
    "Nobody" :> <<"N", "o", "b", "o", "d", "y">> @@
    "cs101" :> <<"c", "s", "1", "0", "1">> @@
    "cs201" :> <<"c", "s", "2", "0", "1">> @@
    "cs301" :> <<"c", "s", "3", "0", "1">> @@
    "cs401" :> <<"c", "s", "4", "0", "1">> @@
    "cs402" :> <<"c", "s", "4", "0", "2">> @@
    "CS101" :> <<"C", "S", "1", "0", "1">> @@
    "CS201" :> <<"C", "S", "2", "0", "1">> @@
    "CS301" :> <<"C", "S", "3", "0", "1">> @@
    "CS401" :> <<"C", "S", "4", "0", "1">> @@
    "CS402" :> <<"C", "S", "4", "0", "2">> @@
    "PROG1" :> <<"P", "R", "O", "G", "1">> @@
    "DATA2" :> <<"D", "A", "T", "A", "2">> @@
    "ALGO3" :> <<"A", "L", "G", "O", "3">> @@
    "MLRN4" :> <<"M", "L", "R", "N", "4">> @@
    "NLPR5" :> <<"N", "L", "P", "R", "5">> @@
    "prog1" :> <<"p", "r", "o", "g", "1">> @@
    "XYZ999" :> <<"X", "Y", "Z", "9", "9", "9">> @@
    "Algorithms" :> <<"A", "l", "g", "o", "r", "i", "t", "h", "m", "s">> @@
    "Data Structures" :> <<"D", "a", "t", "a", " ", "S", "t", "r", "u", "c", "t", "u", "r", "e", "s">> @@
    "Introduction to Programming" :> <<"I", "n", "t", "r", "o", "d", "u", "c", "t", "i", "o", "n", " ", "t", "o", " ", "P", "r", "o", "g", "r", "a", "m", "m", "i", "n", "g">> @@
    "Machine Learning" :> <<"M", "a", "c", "h", "i", "n", "e", " ", "L", "e", "a", "r", "n", "i", "n", "g">> @@
    "Natural Language Processing" :> <<"N", "a", "t", "u", "r", "a", "l", " ", "L", "a", "n", "g", "u", "a", "g", "e", " ", "P", "r", "o", "c", "e", "s", "s", "i", "n", "g">> @@
    "Professor" :> <<"P", "r", "o", "f", "e", "s", "s", "o", "r">> @@
    "undergraduate" :> <<"u", "n", "d", "e", "r", "g", "r", "a", "d", "u", "a", "t", "e">> @@
    "graduate" :> <<"g", "r", "a", "d", "u", "a", "t", "e">> @@
    "machine learning" :> <<"m", "a", "c", "h", "i", "n", "e", " ", "l", "e", "a", "r", "n", "i", "n", "g">> @@
    "natural language processing" :> <<"n", "a", "t", "u", "r", "a", "l", " ", "l", "a", "n", "g", "u", "a", "g", "e", " ", "p", "r", "o", "c", "e", "s", "s", "i", "n", "g">> @@
    "nlp" :> <<"n", "l", "p">> @@
    "algorithms" :> <<"a", "l", "g", "o", "r", "i", "t", "h", "m", "s">> @@
    "data structures" :> <<"d", "a", "t", "a", " ", "s", "t", "r", "u", "c", "t", "u", "r", "e", "s">> @@
    "programming" :> <<"p", "r", "o", "g", "r", "a", "m", "m", "i", "n", "g">> @@
    "intro to programming" :> <<"i", "n", "t", "r", "o", " ", "t", "o", " ", "p", "r", "o", "g", "r", "a", "m", "m", "i", "n", "g">> @@
    "introduction to programming" :> <<"i", "n", "t", "r", "o", "d", "u", "c", "t", "i", "o", "n", " ", "t", "o", " ", "p", "r", "o", "g", "r", "a", "m", "m", "i", "n", "g">> @@
    "cybersecurity" :> <<"c", "y", "b", "e", "r", "s", "e", "c", "u", "r", "i", "t", "y">> @@
    "CS450" :> <<"C", "S", "4", "5", "0">> @@
    "computer networks" :> <<"c", "o", "m", "p", "u", "t", "e", "r", " ", "n", "e", "t", "w", "o", "r", "k", "s">> @@
    "CS350" :> <<"C", "S", "3", "5", "0">> @@
    "networks" :> <<"n", "e", "t", "w", "o", "r", "k", "s">> @@
    "quantum mechanics" :> <<"q", "u", "a", "n", "t", "u", "m", " ", "m", "e", "c", "h", "a", "n", "i", "c", "s">> @@
    "PHYS301" :> <<"P", "H", "Y", "S", "3", "0", "1">> @@
    "linear algebra" :> <<"l", "i", "n", "e", "a", "r", " ", "a", "l", "g", "e", "b", "r", "a">> @@
    "MATH201" :> <<"M", "A", "T", "H", "2", "0", "1">> @@
    "calculus" :> <<"c", "a", "l", "c", "u", "l", "u", "s">> @@
    "MATH101" :> <<"M", "A", "T", "H", "1", "0", "1">> @@
    "calculus i" :> <<"c", "a", "l", "c", "u", "l", "u", "s", " ", "i">> @@
    "calculus ii" :> <<"c", "a", "l", "c", "u", "l", "u", "s", " ", "i", "i">> @@
    "MATH102" :> <<"M", "A", "T", "H", "1", "0", "2">> @@
    "discrete mathematics" :> <<"d", "i", "s", "c", "r", "e", "t", "e", " ", "m", "a", "t", "h", "e", "m", "a", "t", "i", "c", "s">> @@
    "MATH301" :> <<"M", "A", "T", "H", "3", "0", "1">> @@
    "discrete math" :> <<"d", "i", "s", "c", "r", "e", "t", "e", " ", "m", "a", "t", "h">> @@
    "probability" :> <<"p", "r", "o", "b", "a", "b", "i", "l", "i", "t", "y">> @@
    "MATH401" :> <<"M", "A", "T", "H", "4", "0", "1">> @@
    "probability and statistics" :> <<"p", "r", "o", "b", "a", "b", "i", "l", "i", "t", "y", " ", "a", "n", "d", " ", "s", "t", "a", "t", "i", "s", "t", "i", "c", "s">> @@
    "physics" :> <<"p", "h", "y", "s", "i", "c", "s">> @@
    "PHYS101" :> <<"P", "H", "Y", "S", "1", "0", "1">> @@
    "physics i" :> <<"p", "h", "y", "s", "i", "c", "s", " ", "i">> @@
    "physics ii" :> <<"p", "h", "y", "s", "i", "c", "s", " ", "i", "i">> @@
    "PHYS201" :> <<"P", "H", "Y", "S", "2", "0", "1">> @@
    "circuits" :> <<"c", "i", "r", "c", "u", "i", "t", "s">> @@
    "EE101" :> <<"E", "E", "1", "0", "1">> @@
    "digital logic" :> <<"d", "i", "g", "i", "t", "a", "l", " ", "l", "o", "g", "i", "c">> @@
    "EE201" :> <<"E", "E", "2", "0", "1">> @@
    "digital logic design" :> <<"d", "i", "g", "i", "t", "a", "l", " ", "l", "o", "g", "i", "c", " ", "d", "e", "s", "i", "g", "n">> @@
    "signal processing" :> <<"s", "i", "g", "n", "a", "l", " ", "p", "r", "o", "c", "e", "s", "s", "i", "n", "g">> @@
    "EE301" :> <<"E", "E", "3", "0", "1">>

Chars(s) == CharTable[s]
Range(s) == {s[i] : i \in DOMAIN s}

LowerLetters == <<"a", "b", "c", "d", "e", "f", "g", "h", "i", "j", "k", "l", "m",
                  "n", "o", "p", "q", "r", "s", "t", "u", "v", "w", "x", "y", "z">>
UpperLetters == <<"A", "B", "C", "D", "E", "F", "G", "H", "I", "J", "K", "L", "M",
                  "N", "O", "P", "Q", "R", "S", "T", "U", "V", "W", "X", "Y", "Z">>

UpperCharOf == [c \in Range(LowerLetters) |->
                   UpperLetters[CHOOSE i \in DOMAIN LowerLetters : LowerLetters[i] = c]]
LowerCharOf == [c \in Range(UpperLetters) |->
                   LowerLetters[CHOOSE i \in DOMAIN UpperLetters : UpperLetters[i] = c]]
UpperChar(c) == IF c \in DOMAIN UpperCharOf THEN UpperCharOf[c] ELSE c
LowerChar(c) == IF c \in DOMAIN LowerCharOf THEN LowerCharOf[c] ELSE c

\* str.upper() and str.lower(), on spellings.
UpperChars(cs) == [i \in DOMAIN cs |-> UpperChar(cs[i])]
LowerChars(cs) == [i \in DOMAIN cs |-> LowerChar(cs[i])]
Upper(s) == UpperChars(Chars(s))
Lower(s) == LowerChars(Chars(s))

\* str.strip(): leading and trailing blanks removed.
RECURSIVE LStrip(_)
LStrip(cs) == IF cs # <<>> /\ Head(cs) = " " THEN LStrip(Tail(cs)) ELSE cs
RECURSIVE RStrip(_)
RStrip(cs) ==
    IF cs # <<>> /\ cs[Len(cs)] = " " THEN RStrip(SubSeq(cs, 1, Len(cs) - 1)) ELSE cs
Strip(cs) == RStrip(LStrip(cs))

\* `a in b` on strings: a occurs in b as a contiguous run of characters.
IsSubstring(a, b) ==
    \E k \in 0..(Len(b) - Len(a)) : \A i \in 1..Len(a) : b[k + i] = a[i]

StartsWith(cs, prefix) ==
    Len(cs) >= Len(prefix) /\ \A i \in 1..Len(prefix) : cs[i] = prefix[i]

(***************************************************************************)
(* Sequence helpers.                                                       *)
(***************************************************************************)
InSeq(x, s) == \E i \in DOMAIN s : s[i] = x
IsInjective(s) == \A i, j \in DOMAIN s : s[i] = s[j] => i = j
Perms(S) == {s \in [1..Cardinality(S) -> S] : Range(s) = S}
SeqsUpTo(S, n) == UNION {[1..k -> S] : k \in 0..n}
IndexOf(x, s) == CHOOSE i \in DOMAIN s : s[i] = x

\* A returned list, held in a record so that every value of `result` is a
\* record (a node dictionary, NoNode, a tuple of can_take_course, or a list).
ListResult(s) == [list |-> s]

\* The ids of a list of node dictionaries, as a set and as a list.
IdsOf(nodes) == {nodes[i]["id"] : i \in DOMAIN nodes}
\* The concatenation of a sequence of sequences.
RECURSIVE Flatten(_)
Flatten(ss) == IF ss = <<>> THEN <<>> ELSE Head(ss) \o Flatten(Tail(ss))

IdSeqOf(nodes) == [i \in DOMAIN nodes |-> nodes[i]["id"]]

\* dict.get(key): the value, or None when the key is missing.
Get(rec, key) == IF key \in DOMAIN rec THEN rec[key] ELSE None
\* dict.get(key, default).
GetOr(rec, key, default) == IF key \in DOMAIN rec THEN rec[key] ELSE default

(***************************************************************************)
(* networkx.DiGraph as used by KnowledgeGraph: nodes in insertion order,   *)
(* one attribute dictionary per node, successor and predecessor lists in   *)
(* insertion order, and ONE relation per ordered pair of nodes.            *)
(***************************************************************************)
NoEdge == "<no edge>"

EmptyGraph ==
    [nodes |-> <<>>,
     attrs |-> [n \in Universe |-> <<>>],
     succ  |-> [n \in Universe |-> <<>>],
     pred  |-> [n \in Universe |-> <<>>],
     rel   |-> [e \in Universe \X Universe |-> NoEdge]]

\* DiGraph.add_node(n, **attrs): a new node is appended, the attributes of
\* an existing node are updated.
AddNode(g, n, a) ==
    [g EXCEPT !.nodes = IF InSeq(n, @) THEN @ ELSE Append(@, n),
              !.attrs[n] = a @@ @]

\* DiGraph.add_edge(u, v, relation=r): missing endpoints are created without
\* attributes; an existing edge u -> v keeps its place and has its relation
\* overwritten.
AddEdge(g, u, v, r) ==
    LET g1 == IF InSeq(u, g.nodes) THEN g ELSE [g EXCEPT !.nodes = Append(@, u)]
        g2 == IF InSeq(v, g1.nodes) THEN g1 ELSE [g1 EXCEPT !.nodes = Append(@, v)]
    IN [g2 EXCEPT !.succ[u] = IF InSeq(v, @) THEN @ ELSE Append(@, v),
                  !.pred[v] = IF InSeq(u, @) THEN @ ELSE Append(@, u),
                  !.rel[<<u, v>>] = r]

(***************************************************************************)
(* KnowledgeGraph._build_graph: the five loops over the document.          *)
(***************************************************************************)
RECURSIVE AddDepartmentNodes(_, _, _)
AddDepartmentNodes(g, depts, i) ==
    IF i > Len(depts) THEN g
    ELSE AddDepartmentNodes(
            AddNode(g, depts[i].id,
                    [type |-> "department", name |-> depts[i].name, code |-> depts[i].code]),
            depts, i + 1)

RECURSIVE AddFacultyNodes(_, _, _)
AddFacultyNodes(g, faculty, i) ==
    IF i > Len(faculty) THEN g
    ELSE AddFacultyNodes(
            AddEdge(AddNode(g, faculty[i].id,
                            [type |-> "faculty", name |-> faculty[i].name,
                             title |-> faculty[i].title,
                             email |-> GetOr(faculty[i], "email", ""),
                             research_areas |-> GetOr(faculty[i], "research_areas", <<>>)]),
                    faculty[i].id, faculty[i].department, "belongs_to"),
            faculty, i + 1)

RECURSIVE AddDepartmentHeads(_, _, _)
AddDepartmentHeads(g, depts, i) ==
    IF i > Len(depts) THEN g
    ELSE AddDepartmentHeads(
            IF depts[i].faculty_head # Absent
            THEN AddEdge(g, depts[i].faculty_head, depts[i].id, "heads")
            ELSE g,
            depts, i + 1)

RECURSIVE AddTeachesEdges(_, _, _, _)
AddTeachesEdges(g, course_id, taught_by, j) ==
    IF j > Len(taught_by) THEN g
    ELSE AddTeachesEdges(AddEdge(g, taught_by[j], course_id, "teaches"),
                         course_id, taught_by, j + 1)

RECURSIVE AddCourseNodes(_, _, _)
AddCourseNodes(g, courses, i) ==
    IF i > Len(courses) THEN g
    ELSE AddCourseNodes(
            AddTeachesEdges(
                AddEdge(AddNode(g, courses[i].id,
                                [type |-> "course", code |-> courses[i].code,
                                 name |-> courses[i].name, credits |-> courses[i].credits,
                                 level |-> courses[i].level,
                                 description |-> GetOr(courses[i], "description", "")]),
                        courses[i].id, courses[i].department, "belongs_to"),
                courses[i].id, courses[i].taught_by, 1),
            courses, i + 1)

RECURSIVE AddPrerequisiteEdges(_, _, _)
AddPrerequisiteEdges(g, prereqs, i) ==
    IF i > Len(prereqs) THEN g
    ELSE AddPrerequisiteEdges(
            AddEdge(g, prereqs[i].course, prereqs[i].requires, "prerequisite"),
            prereqs, i + 1)

build_graph(data) ==
    LET g1 == AddDepartmentNodes(EmptyGraph, data.departments, 1)
        g2 == AddFacultyNodes(g1, data.faculty, 1)
        g3 == AddDepartmentHeads(g2, data.departments, 1)
        g4 == AddCourseNodes(g3, data.courses, 1)
    IN AddPrerequisiteEdges(g4, data.prerequisites, 1)

(***************************************************************************)
(* KnowledgeGraph query methods.                                           *)
(***************************************************************************)
\* get_node: the node's attributes merged with its id, or NoNode.
get_node(g, node_id) ==
    IF InSeq(node_id, g.nodes) THEN ("id" :> node_id) @@ g.attrs[node_id] ELSE NoNode

\* graph.out_edges(n) / graph.in_edges(n): the neighbours in insertion order.
out_edges(g, n) == IF n \in Universe THEN g.succ[n] ELSE <<>>
in_edges(g, n) == IF n \in Universe THEN g.pred[n] ELSE <<>>

\* [f(x) for x in s if keep(x)] over a sequence.
FilterMap(s, keep(_), f(_)) ==
    LET t == SelectSeq(s, keep) IN [i \in 1..Len(t) |-> f(t[i])]

get_all_nodes_by_type(g, node_type) ==
    FilterMap(g.nodes, LAMBDA n : Get(g.attrs[n], "type") = node_type,
              LAMBDA n : get_node(g, n))

get_all_departments(g) == get_all_nodes_by_type(g, "department")
get_all_faculty(g) == get_all_nodes_by_type(g, "faculty")
get_all_courses(g) == get_all_nodes_by_type(g, "course")

\* The first element of a sequence that satisfies a test, or NoNode.
FirstMatch(s, test(_)) ==
    IF \E i \in DOMAIN s : test(s[i])
    THEN s[CHOOSE i \in DOMAIN s : test(s[i]) /\ \A j \in 1..(i - 1) : ~test(s[j])]
    ELSE NoNode

\* Variant: the codes are compared as they are written.
get_course_by_code_exact(g, code) ==
    FirstMatch(get_all_courses(g), LAMBDA c : GetOr(c, "code", "") = code)

get_course_by_code(g, code) ==
    FirstMatch(get_all_courses(g), LAMBDA c : Upper(GetOr(c, "code", "")) = Upper(code))

get_department_by_code(g, code) ==
    FirstMatch(get_all_departments(g), LAMBDA d : Upper(GetOr(d, "code", "")) = Upper(code))

\* Targets of the outgoing prerequisite edges of a course, in edge order.
PrerequisiteTargets(g, course_id) ==
    SelectSeq(out_edges(g, course_id), LAMBDA t : g.rel[<<course_id, t>>] = "prerequisite")

get_prerequisites(g, course_id) ==
    FilterMap(PrerequisiteTargets(g, course_id),
              LAMBDA t : get_node(g, t) # NoNode, LAMBDA t : get_node(g, t))

\* The body of the while loop of get_all_prerequisites for one popped node:
\* every prerequisite target that is not yet in all_prereqs is added to it
\* and appended to the queue.
RECURSIVE ExpandFrom(_, _, _, _, _)
ExpandFrom(g, current, targets, seen, q) ==
    IF targets = <<>> THEN [all_prereqs |-> seen, queue |-> q]
    ELSE IF g.rel[<<current, Head(targets)>>] = "prerequisite" /\ Head(targets) \notin seen
         THEN ExpandFrom(g, current, Tail(targets), seen \cup {Head(targets)},
                         Append(q, Head(targets)))
         ELSE ExpandFrom(g, current, Tail(targets), seen, q)

\* Variant: the loop over the out-edges is left after the first edge.
Expand_first_edge_only(g, current, seen, q) ==
    ExpandFrom(g, current, SubSeq(out_edges(g, current), 1, 1), seen, q)

Expand(g, current, seen, q) == ExpandFrom(g, current, out_edges(g, current), seen, q)

\* The whole loop: the set all_prereqs when the queue has run empty.
RECURSIVE BfsLoop(_, _, _)
BfsLoop(g, q, seen) ==
    IF q = <<>> THEN seen
    ELSE LET r == Expand(g, Head(q), seen, Tail(q))
         IN BfsLoop(g, r.queue, r.all_prereqs)

\* The set of ids held by all_prereqs when get_all_prerequisites returns.
all_prereq_ids(g, course_id) == BfsLoop(g, <<course_id>>, {})

\* The lists get_all_prerequisites can return: the comprehension iterates a
\* Python set of strings, whose order is the order of the hash table and
\* changes with the hash seed of the process.
get_all_prerequisites_results(g, course_id) ==
    {FilterMap(p, LAMBDA t : get_node(g, t) # NoNode, LAMBDA t : get_node(g, t)) :
        p \in Perms(all_prereq_ids(g, course_id))}

\* get_prerequisite_chain.find_paths: the paths from current_id on, each
\* listed from its far end back to the direct prerequisite.
RECURSIVE find_paths(_, _, _)
find_paths(g, current_id, visited) ==
    LET prereqs == get_prerequisites(g, current_id)
        all_paths ==
            Flatten([i \in DOMAIN prereqs |->
                IF prereqs[i]["id"] \notin visited
                THEN LET sub_paths == find_paths(g, prereqs[i]["id"],
                                                 visited \cup {prereqs[i]["id"]})
                     IN [j \in DOMAIN sub_paths |-> Append(sub_paths[j], prereqs[i])]
                ELSE <<>>])
    IN IF prereqs = <<>> THEN << <<>> >>
       ELSE IF all_paths # <<>> THEN all_paths ELSE << <<>> >>

\* Variant: the course itself is not marked as visited at the start.
get_prerequisite_chain_unseeded(g, course_id) ==
    SelectSeq(find_paths(g, course_id, {}), LAMBDA path : path # <<>>)

\* Variant: the chains stop at the direct prerequisites.
get_prerequisite_chain_direct_only(g, course_id) ==
    LET prereqs == get_prerequisites(g, course_id)
        kept == SelectSeq(prereqs, LAMBDA p : p["id"] # course_id)
    IN [i \in DOMAIN kept |-> <<kept[i]>>]

get_prerequisite_chain(g, course_id) ==
    SelectSeq(find_paths(g, course_id, {course_id}), LAMBDA path : path # <<>>)

\* Variant: eligibility checked against the transitive prerequisites.
can_take_course_transitive(g, course_id, completed_courses) ==
    LET missing == SelectSeq(CHOOSE p \in Perms(all_prereq_ids(g, course_id)) : TRUE,
                             LAMBDA t : t \notin completed_courses)
    IN [can_take |-> Len(missing) = 0, missing |-> missing]

\* can_take_course: the missing direct prerequisites, in edge order.
can_take_course(g, course_id, completed_courses) ==
    LET missing == FilterMap(get_prerequisites(g, course_id),
                             LAMBDA p : p["id"] \notin completed_courses,
                             LAMBDA p : p["id"])
    IN [can_take |-> Len(missing) = 0, missing |-> missing]

get_faculty_by_department(g, dept_id) ==
    FilterMap(in_edges(g, dept_id),
              LAMBDA s : /\ g.rel[<<s, dept_id>>] = "belongs_to"
                         /\ Get(get_node(g, s), "type") = "faculty",
              LAMBDA s : get_node(g, s))

get_courses_by_department(g, dept_id) ==
    FilterMap(in_edges(g, dept_id),
              LAMBDA s : /\ g.rel[<<s, dept_id>>] = "belongs_to"
                         /\ Get(get_node(g, s), "type") = "course",
              LAMBDA s : get_node(g, s))

get_department_head(g, dept_id) ==
    LET heads == SelectSeq(in_edges(g, dept_id), LAMBDA s : g.rel[<<s, dept_id>>] = "heads")
    IN IF heads = <<>> THEN NoNode ELSE get_node(g, heads[1])

\* get_faculty_department and get_course_department: the target of the
\* first outgoing belongs_to edge, or NoNode.
BelongsToTarget(g, n) ==
    LET ts == SelectSeq(out_edges(g, n), LAMBDA t : g.rel[<<n, t>>] = "belongs_to")
    IN IF ts = <<>> THEN NoNode ELSE get_node(g, ts[1])

get_faculty_department(g, faculty_id) == BelongsToTarget(g, faculty_id)
get_course_department(g, course_id) == BelongsToTarget(g, course_id)

get_faculty_by_name(g, name_chars) ==
    FirstMatch(get_all_faculty(g),
               LAMBDA f : IsSubstring(LowerChars(name_chars), Lower(GetOr(f, "name", ""))))

get_courses_taught_by(g, faculty_id) ==
    FilterMap(out_edges(g, faculty_id),
              LAMBDA t : g.rel[<<faculty_id, t>>] = "teaches" /\ get_node(g, t) # NoNode,
              LAMBDA t : get_node(g, t))

get_course_instructors(g, course_id) ==
    FilterMap(in_edges(g, course_id),
              LAMBDA s : g.rel[<<s, course_id>>] = "teaches" /\ get_node(g, s) # NoNode,
              LAMBDA s : get_node(g, s))

get_courses_requiring(g, course_id) ==
    FilterMap(in_edges(g, course_id),
              LAMBDA s : g.rel[<<s, course_id>>] = "prerequisite" /\ get_node(g, s) # NoNode,
              LAMBDA s : get_node(g, s))

\* get_courses_by_level: the courses whose level equals `level`, ignoring case.
get_courses_by_level(g, level) ==
    SelectSeq(get_all_courses(g), LAMBDA c : Lower(GetOr(c, "level", "")) = Lower(level))

\* get_faculty_by_research_area: the faculty with an area that contains `area`.
get_faculty_by_research_area(g, area) ==
    SelectSeq(get_all_faculty(g),
              LAMBDA f : \E i \in DOMAIN GetOr(f, "research_areas", <<>>) :
                            IsSubstring(Lower(area), Lower(f["research_areas"][i])))

\* search_courses: the courses whose name or description contains `query`.
search_courses(g, query) ==
    SelectSeq(get_all_courses(g),
              LAMBDA c : \/ IsSubstring(Lower(query), Lower(GetOr(c, "name", "")))
                         \/ IsSubstring(Lower(query), Lower(GetOr(c, "description", ""))))

\* graph.edges(data=True): the ordered pairs that carry an edge.
Edges(g) == {e \in Universe \X Universe : g.rel[e] # NoEdge}

get_graph_statistics(g) ==
    [total_nodes |-> Len(g.nodes),
     total_edges |-> Cardinality(Edges(g)),
     departments |-> Len(get_all_departments(g)),
     faculty |-> Len(get_all_faculty(g)),
     courses |-> Len(get_all_courses(g)),
     prerequisites |-> Cardinality({e \in Edges(g) : g.rel[e] = "prerequisite"})]

(***************************************************************************)
(* SymbolicReasoner.                                                       *)
(***************************************************************************)
COURSE_NAME_MAP ==
    "machine learning" :> "CS401" @@
    "natural language processing" :> "CS402" @@
    "nlp" :> "CS402" @@
    "algorithms" :> "CS301" @@
    "data structures" :> "CS201" @@
    "programming" :> "CS101" @@
    "intro to programming" :> "CS101" @@
    "introduction to programming" :> "CS101" @@
    "cybersecurity" :> "CS450" @@
    "computer networks" :> "CS350" @@
    "networks" :> "CS350" @@
    "quantum mechanics" :> "PHYS301" @@
    "linear algebra" :> "MATH201" @@
    "calculus" :> "MATH101" @@
    "calculus i" :> "MATH101" @@
    "calculus ii" :> "MATH102" @@
    "discrete mathematics" :> "MATH301" @@
    "discrete math" :> "MATH301" @@
    "probability" :> "MATH401" @@
    "probability and statistics" :> "MATH401" @@
    "physics" :> "PHYS101" @@
    "physics i" :> "PHYS101" @@
    "physics ii" :> "PHYS201" @@
    "circuits" :> "EE101" @@
    "digital logic" :> "EE201" @@
    "digital logic design" :> "EE201" @@
    "signal processing" :> "EE301"

\* Truth value of a string or None, and Python's `a or b`.
Truthy(x) == x # None /\ x # ""
Or(a, b) == IF Truthy(a) THEN a ELSE b

\* _resolve_course_name: the code of a known course name, else the name.
resolve_course_name(name) ==
    IF ~Truthy(name) THEN name
    ELSE LET name_lower == Strip(Lower(name))
         IN IF \E k \in DOMAIN COURSE_NAME_MAP : Chars(k) = name_lower
            THEN COURSE_NAME_MAP[CHOOSE k \in DOMAIN COURSE_NAME_MAP : Chars(k) = name_lower]
            ELSE name

\* Length of the match of ^(dr\.?|prof\.?|professor)\s* with IGNORECASE: the
\* alternatives are tried in order, so "prof" matches before "professor".
TitleMatchLen(cs) ==
    LET l == LowerChars(cs)
        opt_dot(n) == IF Len(l) > n /\ l[n + 1] = "." THEN n + 1 ELSE n
        title == IF StartsWith(l, <<"d", "r">>) THEN opt_dot(2)
                 ELSE IF StartsWith(l, <<"p", "r", "o", "f">>) THEN opt_dot(4)
                 ELSE IF StartsWith(l, <<"p", "r", "o", "f", "e", "s", "s", "o", "r">>) THEN 9
                 ELSE 0
    IN IF title = 0 THEN 0
       ELSE Len(cs) - Len(LStrip(SubSeq(cs, title + 1, Len(cs))))

\* _normalize_faculty_name, on the spelling of a non-empty name.
normalize_faculty_name(cs) == Strip(SubSeq(cs, TitleMatchLen(cs) + 1, Len(cs)))

\* ReasoningStep and ReasoningResult.  A step keeps its rule name and its
\* outputs; every output and answer is a record.
NoMessage == [none |-> TRUE]
Step(rule_name, outputs) == [rule_name |-> rule_name, outputs |-> outputs]
Success(query_type, answer, chain) ==
    [query_type |-> query_type, answer |-> answer, success |-> TRUE,
     reasoning_chain |-> chain, error_message |-> NoMessage]
Failure(query_type, chain, text, entity) ==
    [query_type |-> query_type, answer |-> NoNode, success |-> FALSE,
     reasoning_chain |-> chain, error_message |-> [text |-> text, entity |-> entity]]
\* An exception that leaves a handler.
Raised(exception) == [raised |-> exception]

CodesOf(nodes) == ListResult([i \in DOMAIN nodes |-> nodes[i]["code"]])
NamesOf(nodes) == ListResult([i \in DOMAIN nodes |-> nodes[i]["name"]])
AllHave(nodes, key) == \A i \in DOMAIN nodes : key \in DOMAIN nodes[i]

\* "Try by code first, then by ID".
resolve_course(g, course_code) ==
    LET course == get_course_by_code(g, course_code)
    IN IF course # NoNode THEN course ELSE get_node(g, course_code)

resolve_department(g, code) ==
    LET dept == get_department_by_code(g, code)
    IN IF dept # NoNode THEN dept ELSE get_node(g, code)

resolve_faculty(g, name) ==
    LET faculty == get_faculty_by_name(g, IF name = "" THEN <<>>
                                          ELSE normalize_faculty_name(Chars(name)))
    IN IF faculty # NoNode THEN faculty ELSE get_node(g, name)

\* code.upper() on None raises as soon as one node is compared.
CodeLookupRaises(nodes, code) == code = None /\ Len(nodes) > 0

\* Variant: the enrich step is appended before the miss is reported.
rule_get_course_info_enrich_first(g, params) ==
    LET course_code == Or(Get(params, "course_code"), Get(params, "course_id"))
        course == resolve_course(g, course_code)
        lookup == Step("LOOKUP_COURSE", course)
        found_id == IF course = NoNode THEN course_code ELSE course["id"]
        extra == [department |-> get_course_department(g, found_id),
                  instructors |-> get_course_instructors(g, found_id),
                  prerequisites |-> get_prerequisites(g, found_id)]
    IN IF CodeLookupRaises(get_all_courses(g), course_code) THEN Raised("AttributeError")
       ELSE IF course = NoNode
       THEN Failure("GET_COURSE_INFO", <<lookup, Step("ENRICH_COURSE_DATA", extra)>>,
                    "Course not found", course_code)
       ELSE Success("GET_COURSE_INFO", extra @@ course,
                    <<lookup, Step("ENRICH_COURSE_DATA", extra)>>)

rule_get_course_info(g, params) ==
    LET course_code == Or(Get(params, "course_code"), Get(params, "course_id"))
        course == resolve_course(g, course_code)
        lookup == Step("LOOKUP_COURSE", course)
    IN IF CodeLookupRaises(get_all_courses(g), course_code) THEN Raised("AttributeError")
       ELSE IF course = NoNode
       THEN Failure("GET_COURSE_INFO", <<lookup>>, "Course not found", course_code)
       ELSE LET extra == [department |-> get_course_department(g, course["id"]),
                          instructors |-> get_course_instructors(g, course["id"]),
                          prerequisites |-> get_prerequisites(g, course["id"])]
            IN Success("GET_COURSE_INFO", extra @@ course,
                       <<lookup, Step("ENRICH_COURSE_DATA", extra)>>)

rule_get_faculty_info(g, params) ==
    LET name == Or(Get(params, "name"), Get(params, "faculty_id"))
        faculty == resolve_faculty(g, name)
        lookup == Step("LOOKUP_FACULTY", faculty)
    IN IF name = None THEN Raised("AttributeError")
       ELSE IF faculty = NoNode
       THEN Failure("GET_FACULTY_INFO", <<lookup>>, "Faculty not found", name)
       ELSE LET dept == get_faculty_department(g, faculty["id"])
                courses == get_courses_taught_by(g, faculty["id"])
            IN Success("GET_FACULTY_INFO",
                       [department |-> dept, courses_taught |-> courses] @@ faculty,
                       <<lookup, Step("ENRICH_FACULTY_DATA",
                                      [department |-> dept, courses |-> courses])>>)

rule_get_department_info(g, params) ==
    LET code == Or(Get(params, "code"), Get(params, "dept_id"))
        dept == resolve_department(g, code)
        lookup == Step("LOOKUP_DEPARTMENT", dept)
    IN IF CodeLookupRaises(get_all_departments(g), code) THEN Raised("AttributeError")
       ELSE IF dept = NoNode
       THEN Failure("GET_DEPARTMENT_INFO", <<lookup>>, "Department not found", code)
       ELSE LET head == get_department_head(g, dept["id"])
                faculty == get_faculty_by_department(g, dept["id"])
                courses == get_courses_by_department(g, dept["id"])
            IN Success("GET_DEPARTMENT_INFO",
                       [head |-> head, faculty |-> faculty, courses |-> courses] @@ dept,
                       <<lookup, Step("ENRICH_DEPARTMENT_DATA",
                                      [head |-> head, faculty_count |-> Len(faculty),
                                       course_count |-> Len(courses)])>>)

\* Variant: a miss is reported without a message.
rule_get_prerequisites_unexplained(g, params) ==
    LET course_code == resolve_course_name(Or(Get(params, "course_code"),
                                              Get(params, "course_id")))
        course == resolve_course(g, course_code)
    IN IF CodeLookupRaises(get_all_courses(g), course_code) THEN Raised("AttributeError")
       ELSE IF course = NoNode
       THEN [query_type |-> "GET_PREREQUISITES", answer |-> NoNode, success |-> FALSE,
             reasoning_chain |-> <<>>, error_message |-> NoMessage]
       ELSE IF "name" \notin DOMAIN course THEN Raised("KeyError")
       ELSE LET prereqs == get_prerequisites(g, course["id"])
            IN IF ~AllHave(prereqs, "code") THEN Raised("KeyError")
               ELSE Success("GET_PREREQUISITES", ListResult(prereqs),
                            <<Step("RESOLVE_COURSE", course),
                              Step("QUERY_PREREQUISITES", CodesOf(prereqs))>>)

rule_get_prerequisites(g, params) ==
    LET course_code == resolve_course_name(Or(Get(params, "course_code"),
                                              Get(params, "course_id")))
        course == resolve_course(g, course_code)
    IN IF CodeLookupRaises(get_all_courses(g), course_code) THEN Raised("AttributeError")
       ELSE IF course = NoNode
       THEN Failure("GET_PREREQUISITES", <<>>, "Course not found", course_code)
       ELSE IF "name" \notin DOMAIN course THEN Raised("KeyError")
       ELSE LET prereqs == get_prerequisites(g, course["id"])
            IN IF ~AllHave(prereqs, "code") THEN Raised("KeyError")
               ELSE Success("GET_PREREQUISITES", ListResult(prereqs),
                            <<Step("RESOLVE_COURSE", course),
                              Step("QUERY_PREREQUISITES", CodesOf(prereqs))>>)

\* The results rule_get_all_prerequisites can return, one for each order in
\* which get_all_prerequisites can list the set.
rule_get_all_prerequisites(g, params) ==
    LET course_code == resolve_course_name(Or(Get(params, "course_code"),
                                              Get(params, "course_id")))
        course == resolve_course(g, course_code)
    IN IF CodeLookupRaises(get_all_courses(g), course_code) THEN {Raised("AttributeError")}
       ELSE IF course = NoNode
       THEN {Failure("GET_ALL_PREREQUISITES", <<>>, "Course not found", course_code)}
       ELSE IF "name" \notin DOMAIN course THEN {Raised("KeyError")}
       ELSE LET direct_prereqs == get_prerequisites(g, course["id"])
            IN IF ~AllHave(direct_prereqs, "code") THEN {Raised("KeyError")}
               ELSE {IF ~AllHave(all_list, "code") THEN Raised("KeyError")
                     ELSE Success("GET_ALL_PREREQUISITES", ListResult(all_list),
                                  <<Step("RESOLVE_COURSE", course),
                                    Step("QUERY_DIRECT_PREREQUISITES", CodesOf(direct_prereqs)),
                                    Step("COMPUTE_TRANSITIVE_CLOSURE", CodesOf(all_list))>>) :
                        all_list \in get_all_prerequisites_results(g, course["id"])}

rule_get_courses_by_department(g, params) ==
    LET code == Or(Get(params, "code"), Get(params, "dept_id"))
        dept == resolve_department(g, code)
    IN IF CodeLookupRaises(get_all_departments(g), code) THEN Raised("AttributeError")
       ELSE IF dept = NoNode
       THEN Failure("GET_COURSES_BY_DEPARTMENT", <<>>, "Department not found", code)
       ELSE IF "name" \notin DOMAIN dept THEN Raised("KeyError")
       ELSE LET courses == get_courses_by_department(g, dept["id"])
            IN IF ~AllHave(courses, "code") THEN Raised("KeyError")
               ELSE Success("GET_COURSES_BY_DEPARTMENT", ListResult(courses),
                            <<Step("RESOLVE_DEPARTMENT", dept),
                              Step("QUERY_DEPARTMENT_COURSES", CodesOf(courses))>>)

rule_get_faculty_by_department(g, params) ==
    LET code == Or(Get(params, "code"), Get(params, "dept_id"))
        dept == resolve_department(g, code)
    IN IF CodeLookupRaises(get_all_departments(g), code) THEN Raised("AttributeError")
       ELSE IF dept = NoNode
       THEN Failure("GET_FACULTY_BY_DEPARTMENT", <<>>, "Department not found", code)
       ELSE IF "name" \notin DOMAIN dept THEN Raised("KeyError")
       ELSE LET faculty == get_faculty_by_department(g, dept["id"])
            IN IF ~AllHave(faculty, "name") THEN Raised("KeyError")
               ELSE Success("GET_FACULTY_BY_DEPARTMENT", ListResult(faculty),
                            <<Step("RESOLVE_DEPARTMENT", dept),
                              Step("QUERY_DEPARTMENT_FACULTY", NamesOf(faculty))>>)

rule_get_courses_taught_by(g, params) ==
    LET name == Or(Get(params, "name"), Get(params, "faculty_id"))
        faculty == resolve_faculty(g, name)
    IN IF name = None THEN Raised("AttributeError")
       ELSE IF faculty = NoNode
       THEN Failure("GET_COURSES_TAUGHT_BY", <<>>, "Faculty not found", name)
       ELSE IF "name" \notin DOMAIN faculty THEN Raised("KeyError")
       ELSE LET courses == get_courses_taught_by(g, faculty["id"])
            IN IF ~AllHave(courses, "code") THEN Raised("KeyError")
               ELSE Success("GET_COURSES_TAUGHT_BY", ListResult(courses),
                            <<Step("RESOLVE_FACULTY", faculty),
                              Step("QUERY_FACULTY_COURSES", CodesOf(courses))>>)

rule_get_course_instructors(g, params) ==
    LET course_code == Or(Get(params, "course_code"), Get(params, "course_id"))
        course == resolve_course(g, course_code)
    IN IF CodeLookupRaises(get_all_courses(g), course_code) THEN Raised("AttributeError")
       ELSE IF course = NoNode
       THEN Failure("GET_COURSE_INSTRUCTORS", <<>>, "Course not found", course_code)
       ELSE IF "name" \notin DOMAIN course THEN Raised("KeyError")
       ELSE LET instructors == get_course_instructors(g, course["id"])
            IN IF ~AllHave(instructors, "name") THEN Raised("KeyError")
               ELSE Success("GET_COURSE_INSTRUCTORS", ListResult(instructors),
                            <<Step("RESOLVE_COURSE", course),
                              Step("QUERY_COURSE_INSTRUCTORS", NamesOf(instructors))>>)

\* Variant: a department without a head is reported as a failure.
rule_get_department_head_required(g, params) ==
    LET code == Or(Get(params, "code"), Get(params, "dept_id"))
        dept == resolve_department(g, code)
    IN IF CodeLookupRaises(get_all_departments(g), code) THEN Raised("AttributeError")
       ELSE IF dept = NoNode
       THEN Failure("GET_DEPARTMENT_HEAD", <<>>, "Department not found", code)
       ELSE IF "name" \notin DOMAIN dept THEN Raised("KeyError")
       ELSE LET head == get_department_head(g, dept["id"])
            IN IF head = NoNode
               THEN Failure("GET_DEPARTMENT_HEAD", <<Step("RESOLVE_DEPARTMENT", dept)>>,
                            "Department head not found", code)
               ELSE IF "name" \notin DOMAIN head THEN Raised("KeyError")
               ELSE Success("GET_DEPARTMENT_HEAD", head,
                            <<Step("RESOLVE_DEPARTMENT", dept),
                              Step("QUERY_DEPARTMENT_HEAD", head)>>)

rule_get_department_head(g, params) ==
    LET code == Or(Get(params, "code"), Get(params, "dept_id"))
        dept == resolve_department(g, code)
    IN IF CodeLookupRaises(get_all_departments(g), code) THEN Raised("AttributeError")
       ELSE IF dept = NoNode
       THEN Failure("GET_DEPARTMENT_HEAD", <<>>, "Department not found", code)
       ELSE IF "name" \notin DOMAIN dept THEN Raised("KeyError")
       ELSE LET head == get_department_head(g, dept["id"])
            IN IF head # NoNode /\ "name" \notin DOMAIN head THEN Raised("KeyError")
               ELSE Success("GET_DEPARTMENT_HEAD", head,
                            <<Step("RESOLVE_DEPARTMENT", dept),
                              Step("QUERY_DEPARTMENT_HEAD", head)>>)

\* The loop of _rule_can_take_course that turns completed codes into ids.
RECURSIVE ResolveCompleted(_, _)
ResolveCompleted(g, completed) ==
    IF completed = <<>> THEN <<>>
    ELSE LET c == Head(completed)
             resolved == get_course_by_code(g, c)
         IN (IF resolved # NoNode THEN <<resolved["id"]>>
             ELSE IF get_node(g, c) # NoNode THEN <<c>> ELSE <<>>)
            \o ResolveCompleted(g, Tail(completed))

rule_can_take_course(g, params) ==
    LET course_code == Or(Get(params, "course_code"), Get(params, "course_id"))
        completed == GetOr(params, "completed_courses", <<>>)
        course == resolve_course(g, course_code)
    IN IF CodeLookupRaises(get_all_courses(g), course_code) THEN Raised("AttributeError")
       ELSE IF course = NoNode
       THEN Failure("CAN_TAKE_COURSE", <<>>, "Course not found", course_code)
       ELSE IF "name" \notin DOMAIN course THEN Raised("KeyError")
       ELSE LET completed_ids == ResolveCompleted(g, completed)
                r == can_take_course(g, course["id"], Range(completed_ids))
                answer == [can_take |-> r.can_take, missing_prerequisites |-> r.missing]
            IN Success("CAN_TAKE_COURSE", answer,
                       <<Step("RESOLVE_COURSE", course),
                         Step("RESOLVE_COMPLETED_COURSES", ListResult(completed_ids)),
                         Step("CHECK_PREREQUISITES", r)>>)

rule_get_courses_requiring(g, params) ==
    LET given == Or(Get(params, "course_code"), Get(params, "course_id"))
        course_code == IF Truthy(given) THEN resolve_course_name(given) ELSE given
        by_code == IF Truthy(course_code) THEN get_course_by_code(g, course_code) ELSE NoNode
        course == IF by_code # NoNode THEN by_code ELSE get_node(g, course_code)
    IN IF course = NoNode
       THEN Failure("GET_COURSES_REQUIRING", <<>>, "Course not found", course_code)
       ELSE IF "name" \notin DOMAIN course THEN Raised("KeyError")
       ELSE LET requiring == get_courses_requiring(g, course["id"])
            IN IF "code" \notin DOMAIN course \/ ~AllHave(requiring, "code")
               THEN Raised("KeyError")
               ELSE Success("GET_COURSES_REQUIRING", ListResult(requiring),
                            <<Step("RESOLVE_COURSE", course),
                              Step("QUERY_DEPENDENT_COURSES", CodesOf(requiring))>>)

\* The ids of get_all_prerequisites(course_id), as the handler collects them
\* into a set.
all_prerequisite_id_set(g, course_id) ==
    {t \in all_prereq_ids(g, course_id) : get_node(g, t) # NoNode}

\* Variant: the common prerequisites are taken over the direct prerequisites.
rule_compare_courses_direct(g, params) ==
    LET course1_code == Get(params, "course1")
        course2_code == Get(params, "course2")
        course1 == get_course_by_code(g, course1_code)
        course2 == get_course_by_code(g, course2_code)
    IN IF CodeLookupRaises(get_all_courses(g), course1_code)
          \/ CodeLookupRaises(get_all_courses(g), course2_code)
       THEN Raised("AttributeError")
       ELSE IF course1 = NoNode
       THEN Failure("COMPARE_COURSES", <<>>, "Course not found", course1_code)
       ELSE IF course2 = NoNode
       THEN Failure("COMPARE_COURSES", <<>>, "Course not found", course2_code)
       ELSE LET prereqs1 == IdsOf(get_prerequisites(g, course1["id"]))
                prereqs2 == IdsOf(get_prerequisites(g, course2["id"]))
                common_prereqs == prereqs1 \cap prereqs2
                comparison ==
                    [course1 |-> course1, course2 |-> course2,
                     same_department |-> Get(course1, "department") = Get(course2, "department"),
                     same_level |-> Get(course1, "level") = Get(course2, "level"),
                     credits_diff |-> GetOr(course1, "credits", 0) - GetOr(course2, "credits", 0),
                     common_prereq_count |-> Cardinality(common_prereqs)]
            IN Success("COMPARE_COURSES", comparison,
                       <<Step("RESOLVE_COURSES", [course1 |-> course1, course2 |-> course2]),
                         Step("COMPARE_PREREQUISITES", [common |-> common_prereqs])>>)

rule_compare_courses(g, params) ==
    LET course1_code == Get(params, "course1")
        course2_code == Get(params, "course2")
        course1 == get_course_by_code(g, course1_code)
        course2 == get_course_by_code(g, course2_code)
    IN IF CodeLookupRaises(get_all_courses(g), course1_code)
          \/ CodeLookupRaises(get_all_courses(g), course2_code)
       THEN Raised("AttributeError")
       ELSE IF course1 = NoNode
       THEN Failure("COMPARE_COURSES", <<>>, "Course not found", course1_code)
       ELSE IF course2 = NoNode
       THEN Failure("COMPARE_COURSES", <<>>, "Course not found", course2_code)
       ELSE LET prereqs1 == all_prerequisite_id_set(g, course1["id"])
                prereqs2 == all_prerequisite_id_set(g, course2["id"])
                common_prereqs == prereqs1 \cap prereqs2
                comparison ==
                    [course1 |-> course1, course2 |-> course2,
                     same_department |-> Get(course1, "department") = Get(course2, "department"),
                     same_level |-> Get(course1, "level") = Get(course2, "level"),
                     credits_diff |-> GetOr(course1, "credits", 0) - GetOr(course2, "credits", 0),
                     common_prereq_count |-> Cardinality(common_prereqs)]
            IN Success("COMPARE_COURSES", comparison,
                       <<Step("RESOLVE_COURSES", [course1 |-> course1, course2 |-> course2]),
                         Step("COMPARE_PREREQUISITES", [common |-> common_prereqs])>>)

rule_get_courses_by_level(g, params) ==
    LET level == GetOr(params, "level", "undergraduate")
    IN IF level = None /\ Len(get_all_courses(g)) > 0 THEN Raised("AttributeError")
       ELSE LET courses == IF level = None THEN <<>> ELSE get_courses_by_level(g, level)
            IN Success("GET_COURSES_BY_LEVEL", ListResult(courses),
                       <<Step("FILTER_BY_LEVEL", CodesOf(courses))>>)

rule_get_faculty_by_research(g, params) ==
    LET area == GetOr(params, "area", "")
    IN IF area = None THEN Raised("AttributeError")
       ELSE LET faculty == get_faculty_by_research_area(g, area)
            IN Success("GET_FACULTY_BY_RESEARCH", ListResult(faculty),
                       <<Step("SEARCH_RESEARCH_AREA", NamesOf(faculty))>>)

rule_search_courses(g, params) ==
    LET query == GetOr(params, "query", "")
    IN IF query = None THEN Raised("AttributeError")
       ELSE LET courses == search_courses(g, query)
            IN Success("SEARCH_COURSES", ListResult(courses),
                       <<Step("SEARCH_COURSES", CodesOf(courses))>>)

\* count_map of _rule_count_entities: the statistic read for each key.
CountKeys ==
    "course" :> "courses" @@ "courses" :> "courses" @@ "faculty" :> "faculty" @@
    "department" :> "departments" @@ "departments" :> "departments" @@
    "prerequisite" :> "prerequisites" @@ "prerequisites" :> "prerequisites"

\* Variant: count_map is indexed, not read with a default.
rule_count_entities_indexed(g, params) ==
    LET entity_type == GetOr(params, "entity_type", "course")
        stats == get_graph_statistics(g)
    IN IF entity_type = None THEN Raised("AttributeError")
       ELSE LET keys == {k \in DOMAIN CountKeys : Chars(k) = Lower(entity_type)}
            IN IF keys = {} THEN Raised("KeyError")
               ELSE Success("COUNT_ENTITIES",
                            [entity_type |-> entity_type,
                             count |-> stats[CountKeys[CHOOSE k \in keys : TRUE]]],
                            <<Step("COUNT_ENTITIES",
                                   [count |-> stats[CountKeys[CHOOSE k \in keys : TRUE]]])>>)

rule_count_entities(g, params) ==
    LET entity_type == GetOr(params, "entity_type", "course")
        stats == get_graph_statistics(g)
    IN IF entity_type = None THEN Raised("AttributeError")
       ELSE LET keys == {k \in DOMAIN CountKeys : Chars(k) = Lower(entity_type)}
                count == IF keys = {} THEN 0 ELSE stats[CountKeys[CHOOSE k \in keys : TRUE]]
            IN Success("COUNT_ENTITIES", [entity_type |-> entity_type, count |-> count],
                       <<Step("COUNT_ENTITIES", [count |-> count])>>)

\* The handlers registered in _rules that resolve an entity.
CourseQueryTypes == {"GET_COURSE_INFO", "GET_PREREQUISITES", "GET_ALL_PREREQUISITES",
                     "GET_COURSE_INSTRUCTORS", "CAN_TAKE_COURSE", "GET_COURSES_REQUIRING"}
FacultyQueryTypes == {"GET_FACULTY_INFO", "GET_COURSES_TAUGHT_BY"}
DepartmentQueryTypes == {"GET_DEPARTMENT_INFO", "GET_COURSES_BY_DEPARTMENT",
                         "GET_FACULTY_BY_DEPARTMENT", "GET_DEPARTMENT_HEAD"}
OtherQueryTypes == {"GET_COURSES_BY_LEVEL", "GET_FACULTY_BY_RESEARCH", "SEARCH_COURSES",
                    "COUNT_ENTITIES"}
\* The keys of _rules: every member of the enumeration QueryType.
QueryTypes == CourseQueryTypes \cup FacultyQueryTypes \cup DepartmentQueryTypes
                 \cup {"COMPARE_COURSES"} \cup OtherQueryTypes

\* self._rules[query_type](params): the values the handler can return.
RuleResults(g, query_type, params) ==
    CASE query_type = "GET_COURSE_INFO" -> {rule_get_course_info(g, params)}
      [] query_type = "GET_FACULTY_INFO" -> {rule_get_faculty_info(g, params)}
      [] query_type = "GET_DEPARTMENT_INFO" -> {rule_get_department_info(g, params)}
      [] query_type = "GET_PREREQUISITES" -> {rule_get_prerequisites(g, params)}
      [] query_type = "GET_ALL_PREREQUISITES" -> rule_get_all_prerequisites(g, params)
      [] query_type = "GET_COURSES_BY_DEPARTMENT" -> {rule_get_courses_by_department(g, params)}
      [] query_type = "GET_FACULTY_BY_DEPARTMENT" -> {rule_get_faculty_by_department(g, params)}
      [] query_type = "GET_COURSES_TAUGHT_BY" -> {rule_get_courses_taught_by(g, params)}
      [] query_type = "GET_COURSE_INSTRUCTORS" -> {rule_get_course_instructors(g, params)}
      [] query_type = "GET_DEPARTMENT_HEAD" -> {rule_get_department_head(g, params)}
      [] query_type = "CAN_TAKE_COURSE" -> {rule_can_take_course(g, params)}
      [] query_type = "GET_COURSES_REQUIRING" -> {rule_get_courses_requiring(g, params)}
      [] query_type = "COMPARE_COURSES" -> {rule_compare_courses(g, params)}
      [] query_type = "GET_COURSES_BY_LEVEL" -> {rule_get_courses_by_level(g, params)}
      [] query_type = "GET_FACULTY_BY_RESEARCH" -> {rule_get_faculty_by_research(g, params)}
      [] query_type = "SEARCH_COURSES" -> {rule_search_courses(g, params)}
      [] query_type = "COUNT_ENTITIES" -> {rule_count_entities(g, params)}

\* Variant: the call of the handler is not wrapped in try/except.
execute_query_uncaught(g, query_type, params) ==
    IF query_type \notin QueryTypes
    THEN {[query_type |-> query_type, answer |-> NoNode, success |-> FALSE,
           reasoning_chain |-> <<>>,
           error_message |-> [text |-> "Unknown query type", entity |-> query_type]]}
    ELSE RuleResults(g, query_type, params)

\* execute_query: an unknown type and an exception of the handler become a
\* failed ReasoningResult.
execute_query(g, query_type, params) ==
    IF query_type \notin QueryTypes
    THEN {[query_type |-> query_type, answer |-> NoNode, success |-> FALSE,
           reasoning_chain |-> <<>>,
           error_message |-> [text |-> "Unknown query type", entity |-> query_type]]}
    ELSE {IF "raised" \in DOMAIN r
          THEN [query_type |-> query_type, answer |-> NoNode, success |-> FALSE,
                reasoning_chain |-> <<>>,
                error_message |-> [text |-> r.raised, entity |-> None]]
          ELSE r : r \in RuleResults(g, query_type, params)}

(***************************************************************************)
(* Python's re on spellings.  A pattern is a tree of records:              *)
(*   lit (a run of literal characters), rep (a character class repeated,   *)
(*   greedy), opt (x?), seq, alt (a|b), group (a capturing group) and      *)
(*   bound (\b).  MatchAt lists the ways a pattern matches from position   *)
(*   i in the order the backtracking matcher tries them: alternatives left *)
(*   to right, greedy repetitions longest first.                           *)
(***************************************************************************)
Digits == {"0", "1", "2", "3", "4", "5", "6", "7", "8", "9"}
Letters == Range(LowerLetters) \cup Range(UpperLetters)

InClass(c, cls) ==
    CASE cls = "s" -> c \in {" ", "\t", "\n", "\r", "\f"}
      [] cls = "w" -> c \in Letters \cup Digits \cup {"_"}
      [] cls = "d" -> c \in Digits
      [] cls = "alpha" -> c \in Letters
      [] cls = "notquote" -> c # "\""
      [] cls = "any" -> c # "\n"

\* The length of the longest run of characters of the class from position i.
RunLength(s, i, cls) ==
    LET stops == {k \in i..Len(s) : ~InClass(s[k], cls)}
    IN IF stops = {} THEN Len(s) - i + 1
       ELSE (CHOOSE k \in stops : \A l \in stops : k <= l) - i

\* A literal matches ignoring case when the pattern is compiled with
\* re.IGNORECASE, and exactly otherwise.
LitAt(s, i, text, ignorecase) ==
    /\ i + Len(text) - 1 <= Len(s)
    /\ \A k \in 1..Len(text) :
          IF ignorecase THEN LowerChar(s[i + k - 1]) = LowerChar(text[k])
          ELSE s[i + k - 1] = text[k]

BoundaryAt(s, i) ==
    (i > 1 /\ InClass(s[i - 1], "w")) # (i <= Len(s) /\ InClass(s[i], "w"))


RECURSIVE MatchAt(_, _, _, _)
RECURSIVE MatchSeq(_, _, _, _)
RECURSIVE MatchAlt(_, _, _, _, _)

\* The matches of `re` that start at position i, best first; each gives the
\* position after the match and the text of the groups closed so far.
MatchAt(re, s, i, gs) ==
    CASE re.kind = "lit" ->
            IF LitAt(s, i, re.text, re.ignorecase) THEN <<[end |-> i + Len(re.text), groups |-> gs]>>
            ELSE <<>>
      [] re.kind = "rep" ->
            LET n == RunLength(s, i, re.cls)
            IN [k \in 1..(n - re.min + 1) |-> [end |-> i + n - k + 1, groups |-> gs]]
      [] re.kind = "opt" -> MatchAt(re.body, s, i, gs) \o <<[end |-> i, groups |-> gs]>>
      [] re.kind = "seq" -> MatchSeq(re.parts, 1, s, <<[end |-> i, groups |-> gs]>>)
      [] re.kind = "alt" -> MatchAlt(re.options, 1, s, i, gs)
      [] re.kind = "group" ->
            LET inner == MatchAt(re.body, s, i, gs)
            IN [k \in DOMAIN inner |->
                   [end |-> inner[k].end,
                    groups |-> Append(inner[k].groups, SubSeq(s, i, inner[k].end - 1))]]
      [] re.kind = "bound" ->
            IF BoundaryAt(s, i) THEN <<[end |-> i, groups |-> gs]>> ELSE <<>>

MatchSeq(parts, k, s, acc) ==
    IF k > Len(parts) \/ acc = <<>> THEN acc
    ELSE MatchSeq(parts, k + 1, s,
                  Flatten([n \in DOMAIN acc |->
                              MatchAt(parts[k], s, acc[n].end, acc[n].groups)]))

MatchAlt(options, k, s, i, gs) ==
    IF k > Len(options) THEN <<>>
    ELSE MatchAt(options[k], s, i, gs) \o MatchAlt(options, k + 1, s, i, gs)

\* re.search from position `from`: the leftmost match, or NoMatch.
NoMatch == [none |-> TRUE]
SearchFrom(re, s, from) ==
    LET starts == {i \in from..(Len(s) + 1) : MatchAt(re, s, i, <<>>) # <<>>}
    IN IF starts = {} THEN NoMatch
       ELSE LET i == CHOOSE k \in starts : \A l \in starts : k <= l
                m == MatchAt(re, s, i, <<>>)[1]
            IN [start |-> i, end |-> m.end, groups |-> m.groups]
Search(re, s) == SearchFrom(re, s, 1)

\* re.findall for a pattern with one group: the group of every match, left
\* to right, matches not overlapping.
RECURSIVE FindAllFrom(_, _, _)
FindAllFrom(re, s, from) ==
    LET m == SearchFrom(re, s, from)
    IN IF m = NoMatch THEN <<>>
       ELSE <<m.groups[1]>>
              \o FindAllFrom(re, s, IF m.end > m.start THEN m.end ELSE m.end + 1)
FindAll(re, s) == FindAllFrom(re, s, 1)

\* Builders of pattern trees.
Lit(text) == [kind |-> "lit", text |-> text, ignorecase |-> TRUE]
LitExact(text) == [kind |-> "lit", text |-> text, ignorecase |-> FALSE]
L(w) == Lit(Chars(w))
Rep(cls, min) == [kind |-> "rep", cls |-> cls, min |-> min]
Opt(body) == [kind |-> "opt", body |-> body]
SeqOf(parts) == [kind |-> "seq", parts |-> parts]
Alt(options) == [kind |-> "alt", options |-> options]
Group(body) == [kind |-> "group", body |-> body]
Bound == [kind |-> "bound"]

(***************************************************************************)
(* MockLLMProvider (src/src/llm_interface.py): the deterministic parser.   *)
(* A response is the JSON object the provider returns, kept as a record;   *)
(* confidences are in hundredths (0.85 is 85).                             *)
(***************************************************************************)
\* The string a spelling spells.
Str(cs) == CHOOSE s \in DOMAIN CharTable : CharTable[s] = cs

\* str.rstrip(c) for a single character c.
RECURSIVE RStripChar(_, _)
RStripChar(cs, c) ==
    IF cs # <<>> /\ cs[Len(cs)] = c THEN RStripChar(SubSeq(cs, 1, Len(cs) - 1), c) ELSE cs

\* str.replace(old, new): every occurrence, left to right, not overlapping.
RECURSIVE Replace(_, _, _)
Replace(cs, old, new) ==
    IF cs = <<>> THEN <<>>
    ELSE IF StartsWith(cs, old) THEN new \o Replace(SubSeq(cs, Len(old) + 1, Len(cs)), old, new)
    ELSE <<Head(cs)>> \o Replace(Tail(cs), old, new)

\* MockLLMProvider.COURSE_NAME_MAP, in insertion order.
MockCourseNameMap ==
    << <<"machine learning", "CS401">>, <<"natural language processing", "CS402">>,
       <<"nlp", "CS402">>, <<"algorithms", "CS301">>, <<"data structures", "CS201">>,
       <<"programming", "CS101">>, <<"intro to programming", "CS101">>,
       <<"introduction to programming", "CS101">>, <<"cybersecurity", "CS450">>,
       <<"computer networks", "CS350">>, <<"networks", "CS350">>,
       <<"quantum mechanics", "PHYS301">>, <<"linear algebra", "MATH201">>,
       <<"calculus", "MATH101">>, <<"discrete mathematics", "MATH301">>,
       <<"discrete math", "MATH301">>, <<"probability", "MATH401">>,
       <<"physics", "PHYS101">>, <<"circuits", "EE101">>, <<"digital logic", "EE201">>,
       <<"signal processing", "EE301">> >>

\* The code of the first name of the map that occurs in the text, else the default.
RECURSIVE FirstCourseName(_, _, _)
FirstCourseName(cs, k, default) ==
    IF k > Len(MockCourseNameMap) THEN default
    ELSE IF IsSubstring(Chars(MockCourseNameMap[k][1]), cs) THEN MockCourseNameMap[k][2]
    ELSE FirstCourseName(cs, k + 1, default)

resolved_course(question) == FirstCourseName(question, 1, None)

\* \b([A-Za-z]+\d+)\b
CourseCodePattern == SeqOf(<<Bound, Group(SeqOf(<<Rep("alpha", 1), Rep("d", 1)>>)), Bound>>)

extract_course_code(question) ==
    LET match == Search(CourseCodePattern, question)
    IN IF match # NoMatch THEN Str(UpperChars(match.groups[1]))
       ELSE FirstCourseName(LowerChars(question), 1, "")

dept_map ==
    << <<"computer science", "CS">>, <<"computer", "CS">>, <<"cs", "CS">>, <<"comp", "CS">>,
       <<"mathematics", "MATH">>, <<"math", "MATH">>, <<"maths", "MATH">>,
       <<"physics", "PHYS">>, <<"phys", "PHYS">>,
       <<"electrical engineering", "EE">>, <<"electrical", "EE">>, <<"ee", "EE">> >>

normalize_dept_code(dept) ==
    LET dept_lower == LowerChars(dept)
    IN IF \E k \in DOMAIN dept_map : Chars(dept_map[k][1]) = dept_lower
       THEN dept_map[CHOOSE k \in DOMAIN dept_map : Chars(dept_map[k][1]) = dept_lower][2]
       ELSE Str(UpperChars(dept))

extract_completed_courses(question) ==
    LET courses == FindAll(CourseCodePattern, question)
        kept == SelectSeq(courses, LAMBDA c : LowerChars(c) \notin {Chars("cs401"), Chars("take")})
    IN [i \in DOMAIN kept |-> Str(UpperChars(kept[i]))]

(***************************************************************************)
(* The rule list of MockLLMProvider.generate, in source order.  Each rule  *)
(* is a pattern, the name of a query type and the kind of its parameter    *)
(* extractor (ParamFn).                                                    *)
(***************************************************************************)
patterns ==
  <<
    \* line 141: how\s+many\s+(course[s]?|facult(?:y|ies)|department[s]?|professor[s]?)
    [regex |-> SeqOf(<<L("how"), Rep("s", 1), L("many"), Rep("s", 1),
               Group(Alt(<<SeqOf(<<L("course"), Opt(L("s"))>>), SeqOf(<<L("facult"),
               Alt(<<L("y"), L("ies")>>)>>), SeqOf(<<L("department"), Opt(L("s"))>>),
               SeqOf(<<L("professor"), Opt(L("s"))>>)>>))>>),
     query_type |-> "COUNT_ENTITIES", params |-> "entity_type"],
    \* line 143: (?:total\s+)?number\s+of\s+(course[s]?|facult(?:y|ies)|department[s]?)
    [regex |-> SeqOf(<<Opt(SeqOf(<<L("total"), Rep("s", 1)>>)), L("number"), Rep("s", 1),
               L("of"), Rep("s", 1), Group(Alt(<<SeqOf(<<L("course"), Opt(L("s"))>>),
               SeqOf(<<L("facult"), Alt(<<L("y"), L("ies")>>)>>), SeqOf(<<L("department"),
               Opt(L("s"))>>)>>))>>),
     query_type |-> "COUNT_ENTITIES", params |-> "entity_type"],
    \* line 147: compare\s+(\w+\d+)\s+(?:and|with|to|vs)\s+(\w+\d+)
    [regex |-> SeqOf(<<L("compare"), Rep("s", 1), Group(SeqOf(<<Rep("w", 1), Rep("d", 1)>>)),
               Rep("s", 1), Alt(<<L("and"), L("with"), L("to"), L("vs")>>), Rep("s", 1),
               Group(SeqOf(<<Rep("w", 1), Rep("d", 1)>>))>>),
     query_type |-> "COMPARE_COURSES", params |-> "courses_upper"],
    \* line 149: difference\s+between\s+(\w+\d+)\s+and\s+(\w+\d+)
    [regex |-> SeqOf(<<L("difference"), Rep("s", 1), L("between"), Rep("s", 1),
               Group(SeqOf(<<Rep("w", 1), Rep("d", 1)>>)), Rep("s", 1), L("and"), Rep("s", 1),
               Group(SeqOf(<<Rep("w", 1), Rep("d", 1)>>))>>),
     query_type |-> "COMPARE_COURSES", params |-> "courses_upper"],
    \* line 153: all\s+(?:the\s+)?prerequisite[s]?\s+(?:for|of|to\s+take)\s+(\w+\d+)
    [regex |-> SeqOf(<<L("all"), Rep("s", 1), Opt(SeqOf(<<L("the"), Rep("s", 1)>>)),
               L("prerequisite"), Opt(L("s")), Rep("s", 1), Alt(<<L("for"), L("of"),
               SeqOf(<<L("to"), Rep("s", 1), L("take")>>)>>), Rep("s", 1),
               Group(SeqOf(<<Rep("w", 1), Rep("d", 1)>>))>>),
     query_type |-> "GET_ALL_PREREQUISITES", params |-> "course_code_upper"],
    \* line 155: all\s+(?:the\s+)?prerequisite[s]?.*including\s+transitive
    [regex |-> SeqOf(<<L("all"), Rep("s", 1), Opt(SeqOf(<<L("the"), Rep("s", 1)>>)),
               L("prerequisite"), Opt(L("s")), Rep("any", 0), L("including"), Rep("s", 1),
               L("transitive")>>),
     query_type |-> "GET_ALL_PREREQUISITES", params |-> "course_code_extracted"],
    \* line 157: (?:what\s+)?prerequisite[s]?\s+do\s+i\s+need\s+to\s+take
    [regex |-> SeqOf(<<Opt(SeqOf(<<L("what"), Rep("s", 1)>>)), L("prerequisite"), Opt(L("s")),
               Rep("s", 1), L("do"), Rep("s", 1), L("i"), Rep("s", 1), L("need"), Rep("s", 1),
               L("to"), Rep("s", 1), L("take")>>),
     query_type |-> "GET_ALL_PREREQUISITES", params |-> "course_code_resolved"],
    \* line 159: what\s+(?:do\s+i\s+need|are\s+the\s+requirements)\s+(?:to\s+take|for)
    [regex |-> SeqOf(<<L("what"), Rep("s", 1), Alt(<<SeqOf(<<L("do"), Rep("s", 1), L("i"),
               Rep("s", 1), L("need")>>), SeqOf(<<L("are"), Rep("s", 1), L("the"), Rep("s", 1),
               L("requirements")>>)>>), Rep("s", 1), Alt(<<SeqOf(<<L("to"), Rep("s", 1),
               L("take")>>), L("for")>>)>>),
     query_type |-> "GET_ALL_PREREQUISITES", params |-> "course_code_resolved"],
    \* line 161: prerequisite\s+chain\s+for
    [regex |-> SeqOf(<<L("prerequisite"), Rep("s", 1), L("chain"), Rep("s", 1), L("for")>>),
     query_type |-> "GET_ALL_PREREQUISITES", params |-> "course_code_resolved"],
    \* line 165: (?:what\s+are\s+)?(?:the\s+)?prerequisite[s]?\s+(?:for|of)\s+(\w+\d+)
    [regex |-> SeqOf(<<Opt(SeqOf(<<L("what"), Rep("s", 1), L("are"), Rep("s", 1)>>)),
               Opt(SeqOf(<<L("the"), Rep("s", 1)>>)), L("prerequisite"), Opt(L("s")), Rep("s",
               1), Alt(<<L("for"), L("of")>>), Rep("s", 1), Group(SeqOf(<<Rep("w", 1), Rep("d",
               1)>>))>>),
     query_type |-> "GET_PREREQUISITES", params |-> "course_code_upper"],
    \* line 169: (?:list\s+)?(?:all\s+)?(undergraduate|graduate)\s+course[s]?
    [regex |-> SeqOf(<<Opt(SeqOf(<<L("list"), Rep("s", 1)>>)), Opt(SeqOf(<<L("all"), Rep("s",
               1)>>)), Group(Alt(<<L("undergraduate"), L("graduate")>>)), Rep("s", 1),
               L("course"), Opt(L("s"))>>),
     query_type |-> "GET_COURSES_BY_LEVEL", params |-> "level"],
    \* line 171: (undergraduate|graduate)\s+level\s+course[s]?
    [regex |-> SeqOf(<<Group(Alt(<<L("undergraduate"), L("graduate")>>)), Rep("s", 1),
               L("level"), Rep("s", 1), L("course"), Opt(L("s"))>>),
     query_type |-> "GET_COURSES_BY_LEVEL", params |-> "level"],
    \* line 175: (?:who\s+is\s+)?(?:the\s+)?head\s+of\s+(?:the\s+)?(\w+)(?:\s+department)?
    [regex |-> SeqOf(<<Opt(SeqOf(<<L("who"), Rep("s", 1), L("is"), Rep("s", 1)>>)),
               Opt(SeqOf(<<L("the"), Rep("s", 1)>>)), L("head"), Rep("s", 1), L("of"), Rep("s",
               1), Opt(SeqOf(<<L("the"), Rep("s", 1)>>)), Group(Rep("w", 1)),
               Opt(SeqOf(<<Rep("s", 1), L("department")>>))>>),
     query_type |-> "GET_DEPARTMENT_HEAD", params |-> "dept_code"],
    \* line 177: (\w+)\s+department\s+head
    [regex |-> SeqOf(<<Group(Rep("w", 1)), Rep("s", 1), L("department"), Rep("s", 1),
               L("head")>>),
     query_type |-> "GET_DEPARTMENT_HEAD", params |-> "dept_code"],
    \* line 181: (?:what\s+)?course[s]?\s+require\s+(\w+\d+)
    [regex |-> SeqOf(<<Opt(SeqOf(<<L("what"), Rep("s", 1)>>)), L("course"), Opt(L("s")),
               Rep("s", 1), L("require"), Rep("s", 1), Group(SeqOf(<<Rep("w", 1), Rep("d",
               1)>>))>>),
     query_type |-> "GET_COURSES_REQUIRING", params |-> "course_code_upper"],
    \* line 183: which\s+course[s]?\s+(?:need|require)\s+(\w+\d+)
    [regex |-> SeqOf(<<L("which"), Rep("s", 1), L("course"), Opt(L("s")), Rep("s", 1),
               Alt(<<L("need"), L("require")>>), Rep("s", 1), Group(SeqOf(<<Rep("w", 1),
               Rep("d", 1)>>))>>),
     query_type |-> "GET_COURSES_REQUIRING", params |-> "course_code_upper"],
    \* line 187: who\s+teaches?\s+(\w+\d+)
    [regex |-> SeqOf(<<L("who"), Rep("s", 1), L("teache"), Opt(L("s")), Rep("s", 1),
               Group(SeqOf(<<Rep("w", 1), Rep("d", 1)>>))>>),
     query_type |-> "GET_COURSE_INSTRUCTORS", params |-> "course_code_upper"],
    \* line 189: instructor[s]?\s+(?:for|of)\s+(\w+\d+)
    [regex |-> SeqOf(<<L("instructor"), Opt(L("s")), Rep("s", 1), Alt(<<L("for"), L("of")>>),
               Rep("s", 1), Group(SeqOf(<<Rep("w", 1), Rep("d", 1)>>))>>),
     query_type |-> "GET_COURSE_INSTRUCTORS", params |-> "course_code_upper"],
    \* line 191: (\w+\d+)\s+(?:is\s+)?taught\s+by
    [regex |-> SeqOf(<<Group(SeqOf(<<Rep("w", 1), Rep("d", 1)>>)), Rep("s", 1),
               Opt(SeqOf(<<L("is"), Rep("s", 1)>>)), L("taught"), Rep("s", 1), L("by")>>),
     query_type |-> "GET_COURSE_INSTRUCTORS", params |-> "course_code_upper"],
    \* line 195: (?:tell\s+me\s+about|what\s+is|describe|info\s+(?:about|on))\s+(?:the\s+)?(?:course\s+)?(\w+\d+)
    [regex |-> SeqOf(<<Alt(<<SeqOf(<<L("tell"), Rep("s", 1), L("me"), Rep("s", 1),
               L("about")>>), SeqOf(<<L("what"), Rep("s", 1), L("is")>>), L("describe"),
               SeqOf(<<L("info"), Rep("s", 1), Alt(<<L("about"), L("on")>>)>>)>>), Rep("s", 1),
               Opt(SeqOf(<<L("the"), Rep("s", 1)>>)), Opt(SeqOf(<<L("course"), Rep("s", 1)>>)),
               Group(SeqOf(<<Rep("w", 1), Rep("d", 1)>>))>>),
     query_type |-> "GET_COURSE_INFO", params |-> "course_code_upper"],
    \* line 197: (\w+\d+)\s+(?:course\s+)?(?:info|information|details)
    [regex |-> SeqOf(<<Group(SeqOf(<<Rep("w", 1), Rep("d", 1)>>)), Rep("s", 1),
               Opt(SeqOf(<<L("course"), Rep("s", 1)>>)), Alt(<<L("info"), L("information"),
               L("details")>>)>>),
     query_type |-> "GET_COURSE_INFO", params |-> "course_code_upper"],
    \* line 201: (?:tell\s+me\s+about|what\s+is|describe)\s+(?:the\s+)?(\w+)\s+department
    [regex |-> SeqOf(<<Alt(<<SeqOf(<<L("tell"), Rep("s", 1), L("me"), Rep("s", 1),
               L("about")>>), SeqOf(<<L("what"), Rep("s", 1), L("is")>>), L("describe")>>),
               Rep("s", 1), Opt(SeqOf(<<L("the"), Rep("s", 1)>>)), Group(Rep("w", 1)), Rep("s",
               1), L("department")>>),
     query_type |-> "GET_DEPARTMENT_INFO", params |-> "dept_code"],
    \* line 203: (?:info|information|details)\s+(?:about|on)\s+(?:the\s+)?(\w+)\s+department
    [regex |-> SeqOf(<<Alt(<<L("info"), L("information"), L("details")>>), Rep("s", 1),
               Alt(<<L("about"), L("on")>>), Rep("s", 1), Opt(SeqOf(<<L("the"), Rep("s",
               1)>>)), Group(Rep("w", 1)), Rep("s", 1), L("department")>>),
     query_type |-> "GET_DEPARTMENT_INFO", params |-> "dept_code"],
    \* line 207: (?:what\s+)?course[s]?\s+(?:are\s+)?(?:offered\s+)?(?:in|by)\s+(?:the\s+)?(\w+)\s*(?:department)?
    [regex |-> SeqOf(<<Opt(SeqOf(<<L("what"), Rep("s", 1)>>)), L("course"), Opt(L("s")),
               Rep("s", 1), Opt(SeqOf(<<L("are"), Rep("s", 1)>>)), Opt(SeqOf(<<L("offered"),
               Rep("s", 1)>>)), Alt(<<L("in"), L("by")>>), Rep("s", 1), Opt(SeqOf(<<L("the"),
               Rep("s", 1)>>)), Group(Rep("w", 1)), Rep("s", 0), Opt(L("department"))>>),
     query_type |-> "GET_COURSES_BY_DEPARTMENT", params |-> "dept_code"],
    \* line 209: list\s+(?:all\s+)?(\w+)\s+course[s]?
    [regex |-> SeqOf(<<L("list"), Rep("s", 1), Opt(SeqOf(<<L("all"), Rep("s", 1)>>)),
               Group(Rep("w", 1)), Rep("s", 1), L("course"), Opt(L("s"))>>),
     query_type |-> "GET_COURSES_BY_DEPARTMENT", params |-> "dept_code"],
    \* line 211: (\w+)\s+department\s+course[s]?
    [regex |-> SeqOf(<<Group(Rep("w", 1)), Rep("s", 1), L("department"), Rep("s", 1),
               L("course"), Opt(L("s"))>>),
     query_type |-> "GET_COURSES_BY_DEPARTMENT", params |-> "dept_code"],
    \* line 215: (?:who\s+are\s+)?(?:the\s+)?facult(?:y|ies)\s+in\s+(?:the\s+)?(\w+)
    [regex |-> SeqOf(<<Opt(SeqOf(<<L("who"), Rep("s", 1), L("are"), Rep("s", 1)>>)),
               Opt(SeqOf(<<L("the"), Rep("s", 1)>>)), L("facult"), Alt(<<L("y"), L("ies")>>),
               Rep("s", 1), L("in"), Rep("s", 1), Opt(SeqOf(<<L("the"), Rep("s", 1)>>)),
               Group(Rep("w", 1))>>),
     query_type |-> "GET_FACULTY_BY_DEPARTMENT", params |-> "dept_code"],
    \* line 217: professors?\s+in\s+(?:the\s+)?(\w+)
    [regex |-> SeqOf(<<L("professor"), Opt(L("s")), Rep("s", 1), L("in"), Rep("s", 1),
               Opt(SeqOf(<<L("the"), Rep("s", 1)>>)), Group(Rep("w", 1))>>),
     query_type |-> "GET_FACULTY_BY_DEPARTMENT", params |-> "dept_code"],
    \* line 219: who\s+teaches?\s+(?:in\s+)?(?:the\s+)?(\w+)\s+department
    [regex |-> SeqOf(<<L("who"), Rep("s", 1), L("teache"), Opt(L("s")), Rep("s", 1),
               Opt(SeqOf(<<L("in"), Rep("s", 1)>>)), Opt(SeqOf(<<L("the"), Rep("s", 1)>>)),
               Group(Rep("w", 1)), Rep("s", 1), L("department")>>),
     query_type |-> "GET_FACULTY_BY_DEPARTMENT", params |-> "dept_code"],
    \* line 223: (?:what\s+)?course[s]?\s+(?:does|is)\s+(?:dr\.?|professor)?\s*(\w+(?:\s+\w+)?)\s+teach
    [regex |-> SeqOf(<<Opt(SeqOf(<<L("what"), Rep("s", 1)>>)), L("course"), Opt(L("s")),
               Rep("s", 1), Alt(<<L("does"), L("is")>>), Rep("s", 1),
               Opt(Alt(<<SeqOf(<<L("dr"), Opt(L("."))>>), L("professor")>>)), Rep("s", 0),
               Group(SeqOf(<<Rep("w", 1), Opt(SeqOf(<<Rep("s", 1), Rep("w", 1)>>))>>)),
               Rep("s", 1), L("teach")>>),
     query_type |-> "GET_COURSES_TAUGHT_BY", params |-> "name"],
    \* line 225: (?:dr\.?|professor)?\s*(\w+)'?s?\s+course[s]?
    [regex |-> SeqOf(<<Opt(Alt(<<SeqOf(<<L("dr"), Opt(L("."))>>), L("professor")>>)), Rep("s",
               0), Group(Rep("w", 1)), Opt(L("'")), Opt(L("s")), Rep("s", 1), L("course"),
               Opt(L("s"))>>),
     query_type |-> "GET_COURSES_TAUGHT_BY", params |-> "name"],
    \* line 229: (?:who\s+)?(?:does\s+)?research\s+(?:on|in|about)\s+(.+)
    [regex |-> SeqOf(<<Opt(SeqOf(<<L("who"), Rep("s", 1)>>)), Opt(SeqOf(<<L("does"), Rep("s",
               1)>>)), L("research"), Rep("s", 1), Alt(<<L("on"), L("in"), L("about")>>),
               Rep("s", 1), Group(Rep("any", 1))>>),
     query_type |-> "GET_FACULTY_BY_RESEARCH", params |-> "area_strip"],
    \* line 231: facult(?:y|ies)\s+(?:working\s+)?(?:on|in)\s+(.+)
    [regex |-> SeqOf(<<L("facult"), Alt(<<L("y"), L("ies")>>), Rep("s", 1),
               Opt(SeqOf(<<L("working"), Rep("s", 1)>>)), Alt(<<L("on"), L("in")>>), Rep("s",
               1), Group(Rep("any", 1))>>),
     query_type |-> "GET_FACULTY_BY_RESEARCH", params |-> "area_strip"],
    \* line 233: (machine\s+learning|ai|artificial\s+intelligence|nlp|data\s+mining)\s+(?:research(?:ers?)?|facult(?:y|ies))
    [regex |-> SeqOf(<<Group(Alt(<<SeqOf(<<L("machine"), Rep("s", 1), L("learning")>>),
               L("ai"), SeqOf(<<L("artificial"), Rep("s", 1), L("intelligence")>>), L("nlp"),
               SeqOf(<<L("data"), Rep("s", 1), L("mining")>>)>>)), Rep("s", 1),
               Alt(<<SeqOf(<<L("research"), Opt(SeqOf(<<L("er"), Opt(L("s"))>>))>>),
               SeqOf(<<L("facult"), Alt(<<L("y"), L("ies")>>)>>)>>)>>),
     query_type |-> "GET_FACULTY_BY_RESEARCH", params |-> "area"],
    \* line 237: can\s+(?:i|a\s+student)\s+take\s+(\w+\d+)
    [regex |-> SeqOf(<<L("can"), Rep("s", 1), Alt(<<L("i"), SeqOf(<<L("a"), Rep("s", 1),
               L("student")>>)>>), Rep("s", 1), L("take"), Rep("s", 1), Group(SeqOf(<<Rep("w",
               1), Rep("d", 1)>>))>>),
     query_type |-> "CAN_TAKE_COURSE", params |-> "can_take"],
    \* line 241: (?:who\s+is|tell\s+me\s+about)\s+(?:dr\.?|professor)?\s*(\w+(?:\s+\w+)?)
    [regex |-> SeqOf(<<Alt(<<SeqOf(<<L("who"), Rep("s", 1), L("is")>>), SeqOf(<<L("tell"),
               Rep("s", 1), L("me"), Rep("s", 1), L("about")>>)>>), Rep("s", 1),
               Opt(Alt(<<SeqOf(<<L("dr"), Opt(L("."))>>), L("professor")>>)), Rep("s", 0),
               Group(SeqOf(<<Rep("w", 1), Opt(SeqOf(<<Rep("s", 1), Rep("w", 1)>>))>>))>>),
     query_type |-> "GET_FACULTY_INFO", params |-> "name"],
    \* line 245: (?:search|find|look\s+for)\s+(?:course[s]?\s+)?(?:about|on|related\s+to)?\s*(.+)
    [regex |-> SeqOf(<<Alt(<<L("search"), L("find"), SeqOf(<<L("look"), Rep("s", 1),
               L("for")>>)>>), Rep("s", 1), Opt(SeqOf(<<L("course"), Opt(L("s")), Rep("s",
               1)>>)), Opt(Alt(<<L("about"), L("on"), SeqOf(<<L("related"), Rep("s", 1),
               L("to")>>)>>)), Rep("s", 0), Group(Rep("any", 1))>>),
     query_type |-> "SEARCH_COURSES", params |-> "query_strip"],
    \* line 247: (?:are\s+there\s+)?(?:any\s+)?course[s]?\s+(?:about|on|related\s+to)\s+(.+)
    [regex |-> SeqOf(<<Opt(SeqOf(<<L("are"), Rep("s", 1), L("there"), Rep("s", 1)>>)),
               Opt(SeqOf(<<L("any"), Rep("s", 1)>>)), L("course"), Opt(L("s")), Rep("s", 1),
               Alt(<<L("about"), L("on"), SeqOf(<<L("related"), Rep("s", 1), L("to")>>)>>),
               Rep("s", 1), Group(Rep("any", 1))>>),
     query_type |-> "SEARCH_COURSES", params |-> "query_strip"],
    \* line 249: course[s]?\s+(?:with(?:out)?|having)\s+no\s+prerequisite[s]?
    [regex |-> SeqOf(<<L("course"), Opt(L("s")), Rep("s", 1), Alt(<<SeqOf(<<L("with"),
               Opt(L("out"))>>), L("having")>>), Rep("s", 1), L("no"), Rep("s", 1),
               L("prerequisite"), Opt(L("s"))>>),
     query_type |-> "SEARCH_COURSES", params |-> "query_fixed"]
  >>

\* The parameter extractor of a rule, applied to its match.
ParamFn(kind, m, question) ==
    CASE kind = "entity_type" ->
            [entity_type |-> Str(Replace(RStripChar(m.groups[1], "s"), Chars("ies"), Chars("y")))]
      [] kind = "courses_upper" ->
            [course1 |-> Str(UpperChars(m.groups[1])), course2 |-> Str(UpperChars(m.groups[2]))]
      [] kind = "course_code_upper" -> [course_code |-> Str(UpperChars(m.groups[1]))]
      [] kind = "course_code_extracted" -> [course_code |-> extract_course_code(question)]
      [] kind = "course_code_resolved" ->
            [course_code |-> Or(resolved_course(question), extract_course_code(question))]
      [] kind = "level" -> [level |-> Str(m.groups[1])]
      [] kind = "dept_code" -> [code |-> normalize_dept_code(m.groups[1])]
      [] kind = "name" -> [name |-> Str(m.groups[1])]
      [] kind = "area_strip" -> [area |-> Str(Strip(m.groups[1]))]
      [] kind = "area" -> [area |-> Str(m.groups[1])]
      [] kind = "can_take" ->
            [course_code |-> Str(UpperChars(m.groups[1])),
             completed_courses |-> extract_completed_courses(question)]
      [] kind = "query_strip" -> [query |-> Str(Strip(m.groups[1]))]
      [] kind = "query_fixed" -> [query |-> "no prerequisites"]

Response(query_type, parameters, confidence) ==
    [query_type |-> query_type, parameters |-> parameters, confidence |-> confidence]

\* Variant: the loop runs through the whole list and the last matching rule
\* decides.
FirstRule_last_match(rules, k, question) ==
    LET matching == {j \in k..Len(rules) : Search(rules[j].regex, question) # NoMatch}
    IN IF matching = {} THEN Response("SEARCH_COURSES", [query |-> Str(question)], 50)
       ELSE LET last == CHOOSE j \in matching : \A i \in matching : i <= j
            IN Response(rules[last].query_type,
                        ParamFn(rules[last].params, Search(rules[last].regex, question),
                                question), 85)

\* The loop over the rule list: the response of the first rule, from rule k
\* on, whose pattern is found in the question; the default when none is.
RECURSIVE FirstRule(_, _, _)
FirstRule(rules, k, question) ==
    IF k > Len(rules) THEN Response("SEARCH_COURSES", [query |-> Str(question)], 50)
    ELSE LET match == Search(rules[k].regex, question)
         IN IF match # NoMatch
            THEN Response(rules[k].query_type, ParamFn(rules[k].params, match, question), 85)
            ELSE FirstRule(rules, k + 1, question)

\* Question:\s*"([^"]+)"
QuestionPattern ==
    SeqOf(<<LitExact(Chars("Question:")), Rep("s", 0), LitExact(<<"\"">>),
            Group(Rep("notquote", 1)), LitExact(<<"\"">>)>>)

generate_with(rules, prompt) ==
    LET question_match == Search(QuestionPattern, prompt)
    IN IF question_match = NoMatch THEN Response("SEARCH_COURSES", [query |-> ""], 30)
       ELSE FirstRule(rules, 1, LowerChars(question_match.groups[1]))

\* Variant: the direct-prerequisite rule stands at the head of the list.
generate_direct_first(prompt) ==
    generate_with(SelectSeq(patterns, LAMBDA r : r.query_type = "GET_PREREQUISITES")
                    \o SelectSeq(patterns, LAMBDA r : r.query_type # "GET_PREREQUISITES"),
                  prompt)

generate(prompt) == generate_with(patterns, prompt)

(***************************************************************************)
(* The documents handed to load_data.  Three families share one base       *)
(* document and vary one section each, within the bounds.                  *)
(***************************************************************************)
CourseNameTable == <<"Introduction to Programming", "Data Structures", "Algorithms",
                     "Machine Learning", "Natural Language Processing">>
CourseCreditsTable == <<3, 4, 3, 4, 3>>
ResearchAreaTable == <<<<"Machine Learning", "Algorithms">>, <<"Databases">>,
                       <<>>, <<"Machine Learning">>>>
CourseLevelTable == <<"undergraduate", "undergraduate", "undergraduate", "graduate", "graduate">>

Departments(head) ==
    [i \in 1..NumDepts |->
        [id |-> DeptIdTable[i], name |-> DeptCodeTable[i], code |-> DeptCodeTable[i],
         faculty_head |-> head[i]]]

FacultyList(fdept) ==
    [i \in 1..NumFaculty |->
        [id |-> FacultyIdTable[i], name |-> FacultyNameTable[i], title |-> "Professor",
         department |-> fdept[i], research_areas |-> ResearchAreaTable[i]]]

CourseList(code, cdept) ==
    [i \in 1..NumCourses |->
        [id |-> CourseIdTable[i], code |-> code[i], name |-> CourseNameTable[i],
         credits |-> CourseCreditsTable[i], level |-> CourseLevelTable[i],
         department |-> cdept[i],
         taught_by |-> <<FacultyIdTable[((i - 1) % NumFaculty) + 1]>>]]

PrerequisiteList(pairs) ==
    [i \in 1..Len(pairs) |-> [course |-> pairs[i][1], requires |-> pairs[i][2]]]

BaseHead == [i \in 1..NumDepts |-> Absent]
BaseFacultyDept == [i \in 1..NumFaculty |-> DeptIdTable[((i - 1) % NumDepts) + 1]]
BaseCode == [i \in 1..NumCourses |-> CourseCodeTable[i]]
BaseCourseDept == [i \in 1..NumCourses |-> DeptIdTable[((i - 1) % NumDepts) + 1]]

Document(head, fdept, code, cdept, pairs) ==
    [departments |-> Departments(head), faculty |-> FacultyList(fdept),
     courses |-> CourseList(code, cdept), prerequisites |-> PrerequisiteList(pairs)]

\* Documents that vary the faculty departments and the department heads.
FacultyDocuments ==
    {Document(head, fdept, BaseCode, BaseCourseDept, <<>>) :
        head \in [1..NumDepts -> FacultyIds \cup {Absent}],
        fdept \in [1..NumFaculty -> DeptIds]}

\* Documents that vary the prerequisite pairs (cycles and self-loops included).
PrerequisiteDocuments ==
    {Document(BaseHead, BaseFacultyDept, BaseCode, BaseCourseDept, pairs) :
        pairs \in {s \in SeqsUpTo(CourseIds \X CourseIds, MaxPrereqPairs) : IsInjective(s)}}

\* Documents that vary the course codes or the course departments, over a
\* chain of prerequisites.
ChainPairs == [i \in 1..(NumCourses - 1) |-> <<CourseIdTable[i + 1], CourseIdTable[i]>>]
CourseDocuments ==
    {Document(BaseHead, BaseFacultyDept,
              [i \in 1..NumCourses |-> IF alt[i] THEN CourseAltCodeTable[i] ELSE CourseCodeTable[i]],
              BaseCourseDept, ChainPairs) :
        alt \in [1..NumCourses -> BOOLEAN]}
    \cup {Document(BaseHead, BaseFacultyDept, BaseCode, cdept, ChainPairs) :
             cdept \in [1..NumCourses -> DeptIds]}

\* Documents whose prerequisite pairs close the chain into a ring through
\* every course, alone and with one more pair across or onto the ring.
RingPairs == Append(ChainPairs, <<CourseIdTable[1], CourseIdTable[NumCourses]>>)
RingDocuments ==
    {Document(BaseHead, BaseFacultyDept, BaseCode, BaseCourseDept, RingPairs)}
    \cup {Document(BaseHead, BaseFacultyDept, BaseCode, BaseCourseDept, Append(RingPairs, pair)) :
             pair \in (CourseIds \X CourseIds) \ Range(RingPairs)}

\* Documents in which courses share a code, or carry codes that differ only
\* in letter case.
SharedCodes == {"CS101", "cs101", "CS201"}
SharedCodeDocuments ==
    {Document(BaseHead, BaseFacultyDept, code, BaseCourseDept, ChainPairs) :
        code \in [1..NumCourses -> SharedCodes]}

\* Documents in which one reference names an id that no entry defines.
BaseDocument == Document(BaseHead, BaseFacultyDept, BaseCode, BaseCourseDept, ChainPairs)
DanglingDocuments ==
    {[BaseDocument EXCEPT !.faculty[i].department = MissingId] : i \in 1..NumFaculty}
    \cup {[BaseDocument EXCEPT !.departments[i].faculty_head = MissingId] : i \in 1..NumDepts}
    \cup {[BaseDocument EXCEPT !.courses[i].department = MissingId] : i \in 1..NumCourses}
    \cup {[BaseDocument EXCEPT !.courses[i].taught_by = <<MissingId>>] : i \in 1..NumCourses}
    \cup {[BaseDocument EXCEPT !.prerequisites =
                                 Append(@, [course |-> c, requires |-> MissingId])] :
             c \in CourseIds}
    \cup {[BaseDocument EXCEPT !.prerequisites =
                                 Append(@, [course |-> MissingId, requires |-> c])] :
             c \in CourseIds}

Documents ==
    FacultyDocuments \cup PrerequisiteDocuments \cup CourseDocuments \cup DanglingDocuments
        \cup SharedCodeDocuments \cup RingDocuments

\* The prerequisite documents whose pairs are listed in the order of the
\* course table.
PairKey(pair) ==
    (CHOOSE i \in DOMAIN CourseIdTable : CourseIdTable[i] = pair[1]) * (Len(CourseIdTable) + 1)
      + (CHOOSE i \in DOMAIN CourseIdTable : CourseIdTable[i] = pair[2])
SortedPrerequisiteDocuments ==
    {Document(BaseHead, BaseFacultyDept, BaseCode, BaseCourseDept, pairs) :
        pairs \in {s \in SeqsUpTo(CourseIds \X CourseIds, MaxPrereqPairs) :
                      \A i, j \in DOMAIN s : i < j => PairKey(s[i]) < PairKey(s[j])}}

\* The faculty documents that vary the heads or the faculty departments.
FirstHead == [i \in 1..NumDepts |-> IF i = 1 THEN FacultyIdTable[1] ELSE Absent]
HeadedDocuments ==
    {Document(head, BaseFacultyDept, BaseCode, BaseCourseDept, <<>>) :
        head \in [1..NumDepts -> FacultyIds \cup {Absent}]}
    \cup {Document(FirstHead, fdept, BaseCode, BaseCourseDept, <<>>) :
             fdept \in [1..NumFaculty -> DeptIds]}

\* The documents the store is queried on in any order.
StoreDocuments == CourseDocuments \cup DanglingDocuments \cup HeadedDocuments

\* The documents the handlers of the reasoner are run on.
ReasonerDocuments ==
    HeadedDocuments \cup SortedPrerequisiteDocuments \cup CourseDocuments
        \cup DanglingDocuments

(***************************************************************************)
(* State.                                                                  *)
(***************************************************************************)
VARIABLES
    data,         \* KnowledgeGraph._data: the loaded document
    graph,        \* KnowledgeGraph.graph
    pc,           \* "idle", "bfs" (inside the loop of get_all_prerequisites), "returned"
    call,         \* the operation in progress or last returned, with its arguments
    queue,        \* get_all_prerequisites: the local queue
    all_prereqs,  \* get_all_prerequisites: the local set all_prereqs
    discovered,   \* history: the ids in the order they were added to all_prereqs
    enqueued,     \* history: how often each id was put on the queue
    result        \* the value returned by the last operation

vars == <<data, graph, pc, call, queue, all_prereqs, discovered, enqueued, result>>

NotEnqueued == [n \in Universe |-> 0]

\* KnowledgeGraph.__init__ / load_data: the state after construction from
\* the document d.
Loaded(d) ==
    /\ data = d
    /\ graph = build_graph(d)
    /\ pc = "idle"
    /\ call = [op |-> "load_data"]
    /\ queue = <<>>
    /\ all_prereqs = {}
    /\ discovered = <<>>
    /\ enqueued = NotEnqueued
    /\ result = NoNode

Init == \E d \in Documents : Loaded(d)
InitReasoner == \E d \in ReasonerDocuments : Loaded(d)

\* Variant: a lookup leaves a node behind for the id it was asked about.
Return_recording_lookup(c, r) ==
    /\ pc = "idle"
    /\ call' = c
    /\ result' = r
    /\ queue' = <<>>
    /\ all_prereqs' = {}
    /\ discovered' = <<>>
    /\ enqueued' = NotEnqueued
    /\ pc' = "returned"
    /\ graph' = AddNode(graph, MissingId, <<>>)
    /\ UNCHANGED data

\* An operation that runs in one step returns r.
Return(c, r) ==
    /\ pc = "idle"
    /\ call' = c
    /\ result' = r
    /\ queue' = <<>>
    /\ all_prereqs' = {}
    /\ discovered' = <<>>
    /\ enqueued' = NotEnqueued
    /\ pc' = "returned"
    /\ UNCHANGED <<data, graph>>

(***************************************************************************)
(* get_all_prerequisites, one step per iteration of its while loop.        *)
(***************************************************************************)
\* Variant: the set all_prereqs starts out holding the course itself.
GetAllPrerequisitesStart_seeded(course_id) ==
    /\ pc = "idle"
    /\ pc' = "bfs"
    /\ call' = [op |-> "get_all_prerequisites", course_id |-> course_id]
    /\ queue' = <<course_id>>
    /\ all_prereqs' = {course_id}
    /\ discovered' = <<>>
    /\ enqueued' = [NotEnqueued EXCEPT ![course_id] = 1]
    /\ result' = NoNode
    /\ UNCHANGED <<data, graph>>

GetAllPrerequisitesStart(course_id) ==
    /\ pc = "idle"
    /\ pc' = "bfs"
    /\ call' = [op |-> "get_all_prerequisites", course_id |-> course_id]
    /\ queue' = <<course_id>>
    /\ all_prereqs' = {}
    /\ discovered' = <<>>
    /\ enqueued' = [NotEnqueued EXCEPT ![course_id] = 1]
    /\ result' = NoNode
    /\ UNCHANGED <<data, graph>>

GetAllPrerequisitesLoop ==
    /\ pc = "bfs"
    /\ queue # <<>>
    /\ LET r == Expand(graph, Head(queue), all_prereqs, Tail(queue))
           appended == SubSeq(r.queue, Len(queue), Len(r.queue))
       IN /\ queue' = r.queue
          /\ all_prereqs' = r.all_prereqs
          /\ discovered' = discovered \o appended
          /\ enqueued' = [n \in Universe |->
                            enqueued[n] + Cardinality({i \in DOMAIN appended : appended[i] = n})]
    /\ UNCHANGED <<data, graph, pc, call, result>>

\* The return statement: a list built by iterating the set all_prereqs.
GetAllPrerequisitesReturn ==
    /\ pc = "bfs"
    /\ queue = <<>>
    /\ \E p \in Perms(all_prereqs) :
          result' = ListResult(FilterMap(p, LAMBDA t : get_node(graph, t) # NoNode,
                                         LAMBDA t : get_node(graph, t)))
    /\ pc' = "returned"
    /\ UNCHANGED <<data, graph, call, queue, all_prereqs, discovered, enqueued>>

(***************************************************************************)
(* The other graph queries, each one step.                                 *)
(***************************************************************************)
GetPrerequisites(course_id) ==
    Return([op |-> "get_prerequisites", course_id |-> course_id],
           ListResult(get_prerequisites(graph, course_id)))

CanTakeCourse(course_id, completed_courses) ==
    Return([op |-> "can_take_course", course_id |-> course_id,
            completed_courses |-> completed_courses],
           can_take_course(graph, course_id, completed_courses))

\* Variant: the chains are searched without marking the course as visited.
GetPrerequisiteChain_unseeded(course_id) ==
    Return([op |-> "get_prerequisite_chain", course_id |-> course_id],
           ListResult(get_prerequisite_chain_unseeded(graph, course_id)))

GetPrerequisiteChain(course_id) ==
    Return([op |-> "get_prerequisite_chain", course_id |-> course_id],
           ListResult(get_prerequisite_chain(graph, course_id)))

GetFacultyDepartment(faculty_id) ==
    Return([op |-> "get_faculty_department", faculty_id |-> faculty_id],
           get_faculty_department(graph, faculty_id))

GetFacultyByDepartment(dept_id) ==
    Return([op |-> "get_faculty_by_department", dept_id |-> dept_id],
           ListResult(get_faculty_by_department(graph, dept_id)))

GetDepartmentHead(dept_id) ==
    Return([op |-> "get_department_head", dept_id |-> dept_id],
           get_department_head(graph, dept_id))

\* The codes courses are looked up by: both cases, mixed case, a name code
\* and a code that no course carries.
LookupCodes == {"CS101", "cs101", "Cs101", "CS201", "cs201", "PROG1", "prog1", "XYZ999"}

GetCourseByCode(code) ==
    Return([op |-> "get_course_by_code", code |-> code], get_course_by_code(graph, code))

(***************************************************************************)
(* SymbolicReasoner.execute_query, one step per call.                      *)
(***************************************************************************)
CourseParamValues ==
    CourseIds \cup {CourseCodeTable[i] : i \in 1..NumCourses}
              \cup {CourseAltCodeTable[i] : i \in 1..NumCourses}
              \cup {"prog1", "XYZ999", "programming", MissingId}
              \cup {DeptIdTable[1], FacultyIdTable[1]}
CompareParamValues == CourseIds \cup {CourseCodeTable[i] : i \in 1..NumCourses} \cup {"XYZ999"}
\* Names that consist of a title and nothing else.
HonorificsAlone == {"Dr.", "Prof", "dr"}
FacultyParamValues ==
    FacultyIds \cup {"Smith", "Dr. Smith", "Prof. Garcia", "Nobody", MissingId}
               \cup HonorificsAlone
               \cup {CourseIdTable[1], DeptIdTable[1]}
DepartmentParamValues ==
    DeptIds \cup {DeptCodeTable[i] : i \in 1..NumDepts} \cup {"cs", "XYZ999", MissingId}
            \cup {FacultyIdTable[1], CourseIdTable[1]}

\* A value that is not a key of _rules.
Unregistered == "NOT_A_QUERY_TYPE"
\* The mapping without keys.
EmptyParams == [k \in {} |-> None]

\* The parameter mappings handed to execute_query for a query type: values
\* that resolve, values that do not, null values and missing keys.
ParamsFor(query_type) ==
    IF query_type = "CAN_TAKE_COURSE"
    THEN {[course_code |-> v, completed_courses |-> done] :
             v \in CourseParamValues \cup {None}, done \in {<<>>, <<CourseCodeTable[1]>>}}
            \cup {EmptyParams}
    ELSE IF query_type \in CourseQueryTypes
    THEN {[course_code |-> v] : v \in CourseParamValues \cup {None}}
            \cup {[course_id |-> v] : v \in CourseIds} \cup {EmptyParams}
    ELSE IF query_type \in FacultyQueryTypes
    THEN {[name |-> v] : v \in FacultyParamValues \cup {None}}
            \cup {[faculty_id |-> v] : v \in FacultyIds} \cup {EmptyParams}
    ELSE IF query_type \in DepartmentQueryTypes
    THEN {[code |-> v] : v \in DepartmentParamValues \cup {None}}
            \cup {[dept_id |-> v] : v \in DeptIds} \cup {EmptyParams}
    ELSE IF query_type = "COMPARE_COURSES"
    THEN {[course1 |-> v, course2 |-> w] : v, w \in CompareParamValues}
            \cup {[course1 |-> None, course2 |-> CourseCodeTable[1]],
                  [course1 |-> CourseCodeTable[1]], EmptyParams}
    ELSE IF query_type = "GET_COURSES_BY_LEVEL"
    THEN {[level |-> v] : v \in {"undergraduate", "graduate", "Graduate", None}}
            \cup {EmptyParams}
    ELSE IF query_type = "GET_FACULTY_BY_RESEARCH"
    THEN {[area |-> v] : v \in {"learning", "Databases", "", "XYZ999", None}}
            \cup {EmptyParams}
    ELSE IF query_type = "SEARCH_COURSES"
    THEN {[query |-> v] : v \in {"programming", "data", "", "XYZ999", None}}
            \cup {EmptyParams}
    ELSE IF query_type = "COUNT_ENTITIES"
    THEN {[entity_type |-> v] :
             v \in {"course", "courses", "Courses", "faculty", "department", "departments",
                    "prerequisites", "student", "professor", "", None}} \cup {EmptyParams}
    ELSE {EmptyParams}

ExecuteQuery(query_type, params) ==
    /\ pc = "idle"
    /\ \E r \in execute_query(graph, query_type, params) :
        Return([op |-> "execute_query", query_type |-> query_type, params |-> params], r)

\* The caller takes the returned value and comes back with the next request.
NextRequest ==
    /\ pc = "returned"
    /\ pc' = "idle"
    /\ call' = [op |-> "idle"]
    /\ result' = NoNode
    /\ queue' = <<>>
    /\ all_prereqs' = {}
    /\ discovered' = <<>>
    /\ enqueued' = NotEnqueued
    /\ UNCHANGED <<data, graph>>

Next ==
    \/ \E c \in CourseIds : GetAllPrerequisitesStart(c)
    \/ GetAllPrerequisitesLoop
    \/ GetAllPrerequisitesReturn
    \/ \E c \in CourseIds : GetPrerequisites(c)
    \/ \E c \in CourseIds : GetPrerequisiteChain(c)
    \/ \E code \in LookupCodes : GetCourseByCode(code)
    \/ \E c \in CourseIds, completed \in SUBSET CourseIds : CanTakeCourse(c, completed)
    \/ \E f \in FacultyIds : GetFacultyDepartment(f)
    \/ \E d \in DeptIds : GetFacultyByDepartment(d)
    \/ \E d \in DeptIds : GetDepartmentHead(d)
    \/ NextRequest

\* The queries of the KnowledgeGraph on a loaded document.
Spec == Init /\ [][Next]_vars

NextReasoner ==
    \/ \E qt \in QueryTypes \cup {Unregistered} :
          \E params \in ParamsFor(qt) : ExecuteQuery(qt, params)
    \/ NextRequest

\* The queries of the SymbolicReasoner on a loaded document.
SpecReasoner == InitReasoner /\ [][NextReasoner]_vars

(***************************************************************************)
(* LLMInterface.parse_question and UniversityQAAgent.ask.                  *)
(***************************************************************************)
\* The texts typed to the agent.
QuestionTable ==
    <<"What are the prerequisites for CS201?", "all prerequisites for CS301",
      "All prerequisites for cs201", "all prerequisites for machine learning",
      "Compare CS201 and CS301", "CS101 vs XYZ999", "Who teaches CS101?",
      "How many courses are there?", "how many faculties", "Tell me about CS101",
      "Tell me about Dr. Smith", "Who is the head of the CS department?",
      "What courses require CS101?", "Can I take CS301 if I completed CS101 and CS201?",
      "list graduate courses", "courses in math", "who works on machine learning",
      "find courses about data", "prerequisites for XYZ999", "Quantum Gravity",
      "", "\"hello\"", "say \"hi\" now", "   ",
      "Can I take CS401 if I've only completed CS101 and MATH101?",
      "can i take cs201 if i completed cs101",
      "Can a student take CS402 if they completed CS401?">>

\* The codes courses go by, and the text "all prerequisites for X" for them.
CourseCodes ==
    {CourseCodeTable[i] : i \in 1..NumCourses} \cup {CourseAltCodeTable[i] : i \in 1..NumCourses}
        \cup {"XYZ999"}
AllPrerequisitesFor(code) == Str(Chars("all prerequisites for ") \o Chars(code))
CodeQuestions == {AllPrerequisitesFor(code) : code \in CourseCodes}

Questions == Range(QuestionTable) \cup CodeQuestions

\* The end of the prompt of parse_question.  The instructions before it
\* hold no "Question:" and are left out.
PromptOf(question) ==
    Chars("Question: ") \o <<"\"">> \o Chars(question) \o <<"\"", "\n", "\n">>
        \o Chars("Respond with only the JSON object, no additional text.")

ParsedQuery(original_question, query_type, parameters, confidence) ==
    [original_question |-> original_question, query_type |-> query_type,
     parameters |-> parameters, confidence |-> confidence]

\* What provider.generate does: it raises, or it returns a text that is not
\* JSON, a JSON value that is not an object, or a JSON object.
ProviderRaises == [kind |-> "raises", exception |-> "ProviderError"]
NotJson == [kind |-> "not_json"]
JsonNotObject == [kind |-> "json_not_object"]
JsonObject(object) == [kind |-> "json_object", object |-> object]

\* parse_question after the prompt is built: line 391 calls the provider
\* before the try block, lines 394-422 decode its response.
parse_response(question, outcome) ==
    CASE outcome.kind = "raises" -> Raised(outcome.exception)
      [] outcome.kind = "not_json" ->
            ParsedQuery(question, "SEARCH_COURSES", [query |-> question], 30)
      [] outcome.kind = "json_not_object" -> Raised("AttributeError")
      [] outcome.kind = "json_object" ->
            LET query_type_str == GetOr(outcome.object, "query_type", "SEARCH_COURSES")
                query_type == IF query_type_str \in QueryTypes THEN query_type_str
                              ELSE "SEARCH_COURSES"
            IN ParsedQuery(question, query_type,
                           GetOr(outcome.object, "parameters", EmptyParams),
                           GetOr(outcome.object, "confidence", 50))

\* parse_question with the MockLLMProvider, which always returns an object.
parse_question(question) == parse_response(question, JsonObject(generate(PromptOf(question))))

\* The parse of every question of the model.
Parsed == [q \in Questions |-> parse_question(q)]

\* ask: parse, execute, and hand both back.  The answer and explanation
\* texts are rendered from the two and carry nothing more.
AgentResponse(question, parsed_query, reasoning_result) ==
    [question |-> question, parsed_query |-> parsed_query,
     reasoning_result |-> reasoning_result]

ask(g, question, parsed) ==
    IF "raised" \in DOMAIN parsed THEN {parsed}
    ELSE {AgentResponse(question, parsed, r) :
             r \in execute_query(g, parsed.query_type, parsed.parameters)}

(***************************************************************************)
(* UniversityQAAgent.ask, one step per call.                               *)
(***************************************************************************)
\* The responses of a hosted provider put in place of the MockLLMProvider.
ExternalOutcomes ==
    {ProviderRaises, NotJson, JsonNotObject,
     JsonObject([query_type |-> "GET_COURSE_INFO", parameters |-> [course_code |-> "CS101"],
                 confidence |-> 90]),
     JsonObject([query_type |-> "MAKE_COFFEE", parameters |-> [query |-> "data"],
                 confidence |-> 90]),
     JsonObject([parameters |-> [query |-> "programming"]]),
     JsonObject(EmptyParams)}

\* The documents the agent is constructed on.
AgentDocuments == CourseDocuments \cup DanglingDocuments

\* The questions asked while a hosted provider is in place.
ExternalQuestions == {"Tell me about CS101", ""}

InitAgent == \E d \in AgentDocuments : Loaded(d)

\* ask(question) with the MockLLMProvider.
Ask(question) ==
    /\ pc = "idle"
    /\ \E r \in ask(graph, question, Parsed[question]) :
          Return([op |-> "ask", question |-> question, provider |-> "mock"], r)

\* ask(question) with a hosted provider whose generate call ends in outcome.
AskExternal(question, outcome) ==
    /\ pc = "idle"
    /\ \E r \in ask(graph, question, parse_response(question, outcome)) :
          Return([op |-> "ask", question |-> question, provider |-> "external",
                  outcome |-> outcome], r)

NextAgent ==
    \/ \E q \in Questions : Ask(q)
    \/ \E q \in ExternalQuestions, outcome \in ExternalOutcomes : AskExternal(q, outcome)
    \/ NextRequest

\* The questions put to the UniversityQAAgent on a loaded document.
SpecAgent == InitAgent /\ [][NextAgent]_vars

(***************************************************************************)
(* KnowledgeGraph.__init__ / load_data / _build_graph, one step per        *)
(* iteration of the five loops.  A required key that an entry lacks raises *)
(* KeyError, which leaves _build_graph, load_data and __init__: the        *)
(* constructor call yields no object.                                      *)
(***************************************************************************)
\* The entry without the given key.
Without(entry, key) == [k \in DOMAIN entry \ {key} |-> entry[k]]

\* The documents with one entry that lacks one required key.
MalformedDocuments ==
    {[BaseDocument EXCEPT !.departments[i] = Without(@, key)] :
        i \in 1..NumDepts, key \in {"id", "name", "code"}}
    \cup {[BaseDocument EXCEPT !.faculty[i] = Without(@, key)] :
             i \in 1..NumFaculty, key \in {"id", "name", "title", "department"}}
    \cup {[BaseDocument EXCEPT !.courses[i] = Without(@, key)] :
             i \in 1..NumCourses,
             key \in {"id", "code", "name", "credits", "level", "department"}}
    \cup {[BaseDocument EXCEPT !.prerequisites[i] = Without(@, key)] :
             i \in 1..(NumCourses - 1), key \in {"course", "requires"}}

LoadDocuments == {BaseDocument} \cup DanglingDocuments \cup MalformedDocuments

\* The iterations of _build_graph on a document, in order: the loop and the
\* index of the entry.
LoadPositions(d) ==
    [i \in DOMAIN d.departments |-> [loop |-> "departments", index |-> i]]
        \o [i \in DOMAIN d.faculty |-> [loop |-> "faculty", index |-> i]]
        \o [i \in DOMAIN d.departments |-> [loop |-> "heads", index |-> i]]
        \o [i \in DOMAIN d.courses |-> [loop |-> "courses", index |-> i]]
        \o [i \in DOMAIN d.prerequisites |-> [loop |-> "prerequisites", index |-> i]]

Has(entry, keys) == keys \subseteq DOMAIN entry

\* One iteration: the graph after it, and whether it raised KeyError.  The
\* keyword arguments of add_node are evaluated before the node is added;
\* the node of a faculty or course entry is added before the entry's
\* department is read.
LoadEntry(g, d, position) ==
    LET i == position.index
        Ok(h) == [graph |-> h, raised |-> FALSE]
        KeyError(h) == [graph |-> h, raised |-> TRUE]
    IN CASE position.loop = "departments" ->
              LET dept == d.departments[i]
              IN IF ~Has(dept, {"id", "name", "code"}) THEN KeyError(g)
                 ELSE Ok(AddNode(g, dept.id, [type |-> "department", name |-> dept.name,
                                              code |-> dept.code]))
         [] position.loop = "faculty" ->
              LET faculty == d.faculty[i]
              IN IF ~Has(faculty, {"id", "name", "title"}) THEN KeyError(g)
                 ELSE LET h == AddNode(g, faculty.id,
                                       [type |-> "faculty", name |-> faculty.name,
                                        title |-> faculty.title,
                                        email |-> GetOr(faculty, "email", ""),
                                        research_areas |->
                                            GetOr(faculty, "research_areas", <<>>)])
                      IN IF ~Has(faculty, {"department"}) THEN KeyError(h)
                         ELSE Ok(AddEdge(h, faculty.id, faculty.department, "belongs_to"))
         [] position.loop = "heads" ->
              LET dept == d.departments[i]
              IN IF GetOr(dept, "faculty_head", Absent) = Absent THEN Ok(g)
                 ELSE Ok(AddEdge(g, dept.faculty_head, dept.id, "heads"))
         [] position.loop = "courses" ->
              LET course == d.courses[i]
              IN IF ~Has(course, {"id", "code", "name", "credits", "level"}) THEN KeyError(g)
                 ELSE LET h == AddNode(g, course.id,
                                       [type |-> "course", code |-> course.code,
                                        name |-> course.name, credits |-> course.credits,
                                        level |-> course.level,
                                        description |-> GetOr(course, "description", "")])
                      IN IF ~Has(course, {"department"}) THEN KeyError(h)
                         ELSE Ok(AddTeachesEdges(
                                    AddEdge(h, course.id, course.department, "belongs_to"),
                                    course.id, GetOr(course, "taught_by", <<>>), 1))
         [] position.loop = "prerequisites" ->
              LET prereq == d.prerequisites[i]
              IN IF ~Has(prereq, {"course", "requires"}) THEN KeyError(g)
                 ELSE Ok(AddEdge(g, prereq.course, prereq.requires, "prerequisite"))

\* KnowledgeGraph(path) is called: an empty graph, the document read.
InitLoad ==
    /\ data \in LoadDocuments
    /\ graph = EmptyGraph
    /\ pc = "loading"
    /\ call = [op |-> "load_data", step |-> 1]
    /\ queue = <<>>
    /\ all_prereqs = {}
    /\ discovered = <<>>
    /\ enqueued = NotEnqueued
    /\ result = NoNode

\* Variant: an entry that raises is skipped and the load goes on.
LoadStep_skip_malformed ==
    /\ pc = "loading"
    /\ call.step <= Len(LoadPositions(data))
    /\ LET r == LoadEntry(graph, data, LoadPositions(data)[call.step])
       IN /\ graph' = r.graph
          /\ pc' = "loading"
          /\ result' = NoNode
          /\ call' = [call EXCEPT !.step = @ + 1]
    /\ UNCHANGED <<data, queue, all_prereqs, discovered, enqueued>>

LoadStep ==
    /\ pc = "loading"
    /\ call.step <= Len(LoadPositions(data))
    /\ LET r == LoadEntry(graph, data, LoadPositions(data)[call.step])
       IN /\ graph' = r.graph
          /\ pc' = IF r.raised THEN "failed" ELSE "loading"
          /\ result' = IF r.raised THEN Raised("KeyError") ELSE NoNode
          /\ call' = IF r.raised THEN call ELSE [call EXCEPT !.step = @ + 1]
    /\ UNCHANGED <<data, queue, all_prereqs, discovered, enqueued>>

\* _build_graph, load_data and __init__ return: the store exists.
LoadReturn ==
    /\ pc = "loading"
    /\ call.step > Len(LoadPositions(data))
    /\ pc' = "idle"
    /\ call' = [op |-> "load_data"]
    /\ UNCHANGED <<data, graph, queue, all_prereqs, discovered, enqueued, result>>

NextLoad ==
    \/ LoadStep
    \/ LoadReturn
    \/ \E c \in CourseIds : GetPrerequisites(c)
    \/ \E d \in DeptIds : GetFacultyByDepartment(d)
    \/ \E qt \in {"GET_COURSE_INFO", "COUNT_ENTITIES"} :
          \E params \in ParamsFor(qt) : ExecuteQuery(qt, params)
    \/ NextRequest

\* Construction of the store from a document, and the queries put to it.
SpecLoad == InitLoad /\ [][NextLoad]_vars

NextStore ==
    \/ \E c \in CourseIds : GetAllPrerequisitesStart(c)
    \/ GetAllPrerequisitesLoop
    \/ GetAllPrerequisitesReturn
    \/ \E c \in CourseIds : GetPrerequisites(c)
    \/ \E c \in CourseIds : GetPrerequisiteChain(c)
    \/ \E code \in LookupCodes : GetCourseByCode(code)
    \/ \E c \in CourseIds, completed \in SUBSET CourseIds : CanTakeCourse(c, completed)
    \/ \E f \in FacultyIds : GetFacultyDepartment(f)
    \/ \E d \in DeptIds : GetFacultyByDepartment(d)
    \/ \E d \in DeptIds : GetDepartmentHead(d)
    \/ \E qt \in QueryTypes \cup {Unregistered} :
          \E params \in ParamsFor(qt) : ExecuteQuery(qt, params)
    \/ NextRequest

\* Every query of the KnowledgeGraph and of the SymbolicReasoner, in any
\* order, on a loaded document.
SpecStore == (\E d \in StoreDocuments : Loaded(d)) /\ [][NextStore]_vars

\* The loop of get_all_prerequisites runs to its return once it is entered.
FairSpec == Spec /\ WF_vars(GetAllPrerequisitesLoop) /\ WF_vars(GetAllPrerequisitesReturn)

(***************************************************************************)
(* Reference notions, read off the loaded document.                        *)
(***************************************************************************)
PrereqPairs(d) ==
    {<<d.prerequisites[i].course, d.prerequisites[i].requires>> : i \in DOMAIN d.prerequisites}

\* The courses that c names as `requires` in a prerequisite pair.
DirectOf(d, c) == {p[2] : p \in {q \in PrereqPairs(d) : q[1] = c}}

RECURSIVE ReachClosure(_, _)
ReachClosure(R, S) ==
    LET T == S \cup {p[2] : p \in {q \in R : q[1] \in S}}
    IN IF T = S THEN S ELSE ReachClosure(R, T)

\* The courses reachable from c over one or more prerequisite pairs.
ReachableFrom(d, c) == ReachClosure(PrereqPairs(d), DirectOf(d, c))

AllPrerequisitesReturned == pc = "returned" /\ call.op = "get_all_prerequisites"

(***************************************************************************)
(* Claims.                                                                 *)
(***************************************************************************)

\* C1: after load, every faculty entry's department d is a belongs_to edge
\* (get_faculty_department(f) = d and f is listed by
\* get_faculty_by_department(d)) and every department's faculty_head h is a
\* heads edge (get_department_head(d) = h), also when h belongs to d.
C1_DepartmentAndHeadEdges ==
    /\ call.op = "get_faculty_department" =>
          \A i \in DOMAIN data.faculty :
             data.faculty[i].id = call.faculty_id =>
                Get(result, "id") = data.faculty[i].department
    /\ call.op = "get_faculty_by_department" =>
          \A i \in DOMAIN data.faculty :
             data.faculty[i].department = call.dept_id =>
                data.faculty[i].id \in IdsOf(result.list)
    /\ call.op = "get_department_head" =>
          \A i \in DOMAIN data.departments :
             (data.departments[i].id = call.dept_id
                /\ data.departments[i].faculty_head # Absent) =>
                Get(result, "id") = data.departments[i].faculty_head

\* C2: can_take_course(c, completed) returns (eligible, missing) where
\* missing is exactly the direct prerequisites of c not in completed and
\* eligible holds iff missing is empty; a prerequisite that is only
\* transitive is never missing and never makes eligible false.
C2_CanTakeDirectOnly ==
    call.op = "can_take_course" =>
        LET direct == DirectOf(data, call.course_id)
        IN /\ Range(result.missing) = direct \ call.completed_courses
           /\ IsInjective(result.missing)
           /\ result.can_take = (Len(result.missing) = 0)
           /\ result.can_take = (direct \subseteq call.completed_courses)
           /\ \A t \in ReachableFrom(data, call.course_id) \ direct :
                 t \notin Range(result.missing)

\* A course is eligible although a prerequisite two hops away is not completed.
C2_Witness ==
    /\ call.op = "can_take_course"
    /\ result.can_take
    /\ DirectOf(data, call.course_id) # {}
    /\ \E t \in ReachableFrom(data, call.course_id) \ DirectOf(data, call.course_id) :
          t \notin call.completed_courses

\* C3: the ids returned by get_all_prerequisites(c) are exactly the nodes
\* reachable from c over one or more prerequisite edges.
C3_AllPrerequisitesIsClosure ==
    AllPrerequisitesReturned =>
        IdsOf(result.list) = ReachableFrom(data, call.course_id)

\* The returned list holds a prerequisite that is not a direct one, on a
\* graph where the course lies on a cycle.
C3_Witness ==
    /\ AllPrerequisitesReturned
    /\ call.course_id \in ReachableFrom(data, call.course_id)
    /\ \E t \in IdsOf(result.list) : t \notin DirectOf(data, call.course_id)

\* C4: c never appears in the list returned by get_all_prerequisites(c),
\* also when c lies on a prerequisite cycle or has a self-loop.
C4_NeverContainsSelf ==
    AllPrerequisitesReturned => call.course_id \notin IdsOf(result.list)

\* C5: while get_all_prerequisites runs, each course id is put on the queue
\* at most once.
C5_EnqueuedAtMostOnce == \A n \in Universe : enqueued[n] <= 1

\* The loop of get_all_prerequisites itself always reaches its return.
AllPrerequisitesTerminates == (pc = "bfs") ~> (pc = "returned")

\* C6: every course of get_prerequisites(c) is also in
\* get_all_prerequisites(c), cycles and self-loops included.
C6_DirectSubsetOfAll ==
    AllPrerequisitesReturned =>
        IdsOf(get_prerequisites(graph, call.course_id)) \subseteq IdsOf(result.list)

\* A course with a self-loop and a second direct prerequisite.
C6_Witness ==
    /\ AllPrerequisitesReturned
    /\ call.course_id \in IdsOf(get_prerequisites(graph, call.course_id))
    /\ Len(get_prerequisites(graph, call.course_id)) >= 2

\* C7: the list returned by get_all_prerequisites(c) is in breadth-first
\* discovery order.
C7_DiscoveryOrder ==
    AllPrerequisitesReturned => IdSeqOf(result.list) = discovered

\* The `department` field of the document's entry for a course.
DepartmentOfCourse(d, course_id) ==
    d.courses[CHOOSE i \in DOMAIN d.courses : d.courses[i].id = course_id].department

Executed(query_type) ==
    pc = "returned" /\ call.op = "execute_query" /\ call.query_type = query_type

\* C8: for two resolvable courses, the comparison's same_department is true
\* iff both courses belong to the same department.
C8_SameDepartment ==
    (Executed("COMPARE_COURSES") /\ result.success) =>
        result.answer.same_department =
            (DepartmentOfCourse(data, result.answer.course1["id"])
               = DepartmentOfCourse(data, result.answer.course2["id"]))

\* C9: for two resolvable courses, common_prereq_count is the size of the
\* intersection of the two courses' transitive prerequisite sets.
C9_CommonPrereqCount ==
    (Executed("COMPARE_COURSES") /\ result.success) =>
        result.answer.common_prereq_count =
            Cardinality(ReachableFrom(data, result.answer.course1["id"])
                          \cap ReachableFrom(data, result.answer.course2["id"]))

\* Two different courses share a prerequisite that is transitive for one of
\* them, and each has a prerequisite the other lacks or shares only part.
C9_Witness ==
    /\ Executed("COMPARE_COURSES")
    /\ result.success
    /\ result.answer.course1["id"] # result.answer.course2["id"]
    /\ result.answer.common_prereq_count >= 1
    /\ \E t \in ReachableFrom(data, result.answer.course1["id"])
                  \cap ReachableFrom(data, result.answer.course2["id"]) :
          t \notin DirectOf(data, result.answer.course1["id"])
    /\ ReachableFrom(data, result.answer.course1["id"])
          # ReachableFrom(data, result.answer.course2["id"])

\* The node kind a query type resolves, and the parameters that name it.
IdsOfKind(query_type) ==
    IF query_type \in CourseQueryTypes \cup {"COMPARE_COURSES"} THEN CourseIds
    ELSE IF query_type \in FacultyQueryTypes THEN FacultyIds
    ELSE DeptIds

\* Every identifying parameter of the call is the raw id of a node of the
\* kind the query type is about.
CalledWithRawIds ==
    /\ pc = "returned"
    /\ call.op = "execute_query"
    /\ call.query_type \in QueryTypes \ OtherQueryTypes
    /\ DOMAIN call.params \ {"completed_courses"} # {}
    /\ \A k \in DOMAIN call.params \ {"completed_courses"} :
          call.params[k] \in IdsOfKind(call.query_type)

\* C10: every handler that names an entity, the two-course comparison
\* included, resolves a raw internal id to that entity and succeeds.
C10_RawIdResolves ==
    CalledWithRawIds =>
        /\ result.success
        /\ call.query_type = "COMPARE_COURSES" =>
              /\ result.answer.course1["id"] = call.params.course1
              /\ result.answer.course2["id"] = call.params.course2
        /\ call.query_type # "COMPARE_COURSES" =>
              \A k \in DOMAIN call.params \ {"completed_courses"} :
                 result.reasoning_chain[1].outputs["id"] = call.params[k]

\* The handlers other than the comparison do resolve a raw id.
RawIdResolvesExceptCompare ==
    (CalledWithRawIds /\ call.query_type # "COMPARE_COURSES"
        /\ data \notin DanglingDocuments) =>
        /\ result.success
        /\ \A k \in DOMAIN call.params \ {"completed_courses"} :
              result.reasoning_chain[1].outputs["id"] = call.params[k]

\* The fields of a ReasoningResult.
ReasoningResultFields == {"query_type", "answer", "success", "reasoning_chain", "error_message"}

ExecuteReturned == pc = "returned" /\ call.op = "execute_query"

\* Every run of the registered handler on the call's arguments ends in an
\* exception.
HandlerRaised ==
    /\ call.query_type \in QueryTypes
    /\ \A r \in RuleResults(graph, call.query_type, call.params) : "raised" \in DOMAIN r

\* C11: execute_query never raises: for every query type and parameter
\* mapping it returns a ReasoningResult; an unregistered type gives
\* success = false with the "Unknown query type" error, and an exception
\* raised inside the handler gives success = false with the exception's
\* message as error_message.
C11_ExecuteNeverRaises ==
    ExecuteReturned =>
        /\ DOMAIN result = ReasoningResultFields
        /\ result.success \in BOOLEAN
        /\ result.query_type = call.query_type
        /\ call.query_type \notin QueryTypes =>
              /\ ~result.success
              /\ result.error_message = [text |-> "Unknown query type",
                                         entity |-> call.query_type]
        /\ HandlerRaised =>
              /\ ~result.success
              /\ result.answer = NoNode
              /\ \E r \in RuleResults(graph, call.query_type, call.params) :
                    result.error_message = [text |-> r.raised, entity |-> None]

\* A handler raised on a null parameter and the call returned a failed result.
C11_Witness ==
    /\ ExecuteReturned
    /\ HandlerRaised
    /\ \E k \in DOMAIN call.params : call.params[k] = None
    /\ ~result.success

\* An unregistered query type was answered with a failed result.
UnregisteredAnswered ==
    ExecuteReturned /\ call.query_type = Unregistered /\ ~result.success

\* Parameter values that name no entity of any document.
UnresolvableValues == {"XYZ999", "Nobody"}

\* The call named an entity that its resolution step cannot find.
ResolutionMissed ==
    /\ ExecuteReturned
    /\ call.query_type \in QueryTypes \ OtherQueryTypes
    /\ \E k \in DOMAIN call.params \ {"completed_courses"} :
          call.params[k] \in UnresolvableValues

\* C12: when a handler's resolution step finds nothing, the handler returns
\* success = false, an error message that names the entity it could not
\* resolve (the first of the two courses of a comparison that misses), and a
\* reasoning chain that holds only steps run before the miss: no step reports
\* an output and no enrich or compute step is appended.
C12_ResolutionMiss ==
    ResolutionMissed =>
        /\ ~result.success
        /\ result.answer = NoNode
        /\ result.error_message.text
              \in {"Course not found", "Faculty not found", "Department not found"}
        /\ \E k \in DOMAIN call.params \ {"completed_courses"} :
              call.params[k] = result.error_message.entity
        /\ \/ result.error_message.entity \in UnresolvableValues
           \/ /\ call.query_type = "COMPARE_COURSES"
              /\ result.error_message.entity = call.params.course1
        /\ Len(result.reasoning_chain) <= 1
        /\ \A i \in DOMAIN result.reasoning_chain :
              /\ result.reasoning_chain[i].outputs = NoNode
              /\ result.reasoning_chain[i].rule_name
                    \in {"LOOKUP_COURSE", "LOOKUP_FACULTY", "LOOKUP_DEPARTMENT"}

\* A miss reported with the lookup step that ran before it.
C12_Witness ==
    /\ ResolutionMissed
    /\ ~result.success
    /\ Len(result.reasoning_chain) = 1

\* A miss of the second course of a comparison, after the first resolved.
SecondCourseMissed ==
    /\ ResolutionMissed
    /\ call.query_type = "COMPARE_COURSES"
    /\ call.params.course1 \notin UnresolvableValues
    /\ result.error_message.entity = call.params.course2

AskReturned == pc = "returned" /\ call.op = "ask"

\* ask ended in an exception that reached its caller.
AskRaised == AskReturned /\ "raised" \in DOMAIN result

\* The fields of an AgentResponse that hold structure.
IsAgentResponse(r) == DOMAIN r = {"question", "parsed_query", "reasoning_result"}

\* The low-confidence free-text search parse_question falls back to.
IsFallbackParse(p, question) ==
    /\ p.query_type = "SEARCH_COURSES"
    /\ p.parameters = [query |-> question]
    /\ p.confidence = 30

\* C13: when the provider's generate call raises, ask still returns a
\* structured response whose parsed query is the low-confidence free-text
\* search.
C13_ProviderFailureFallsBack ==
    (AskReturned /\ call.provider = "external" /\ call.outcome.kind = "raises") =>
        /\ IsAgentResponse(result)
        /\ IsFallbackParse(result.parsed_query, call.question)

\* A response of the provider that is not JSON does fall back.
UndecodableResponseFallsBack ==
    (AskReturned /\ call.provider = "external" /\ call.outcome.kind = "not_json") =>
        /\ IsAgentResponse(result)
        /\ IsFallbackParse(result.parsed_query, call.question)

\* The text the rules of the parser are matched against: what the question
\* pattern takes out of the prompt, in lower case.
QuestionText ==
    [q \in Questions |->
        LET m == Search(QuestionPattern, PromptOf(q))
        IN IF m = NoMatch THEN NoMatch ELSE [text |-> LowerChars(m.groups[1])]]

\* The positions of the rules whose pattern is found in the question.
MatchingRules ==
    [q \in Questions |->
        IF QuestionText[q] = NoMatch THEN {}
        ELSE {k \in DOMAIN patterns : Search(patterns[k].regex, QuestionText[q].text) # NoMatch}]

LowestRule(q) == CHOOSE k \in MatchingRules[q] : \A j \in MatchingRules[q] : k <= j

\* What the rules at the positions of the question yield.
RuleOutcome ==
    [q \in Questions |->
        [k \in MatchingRules[q] |->
            [query_type |-> patterns[k].query_type,
             parameters |-> ParamFn(patterns[k].params,
                                    Search(patterns[k].regex, QuestionText[q].text),
                                    QuestionText[q].text)]]]

AskedMock == AskReturned /\ call.provider = "mock"

\* C14: the parse of a question that one or more rules match carries the
\* query type and the parameters of the matching rule with the lowest
\* position in the list, whatever rules match further down.
C14_FirstMatchWins ==
    (AskedMock /\ MatchingRules[call.question] # {}) =>
        LET first == RuleOutcome[call.question][LowestRule(call.question)]
        IN /\ result.parsed_query.query_type = first.query_type
           /\ result.parsed_query.parameters = first.parameters

\* A question that two rules of different query types match was asked.
C14_Witness ==
    /\ AskedMock
    /\ \E j, k \in MatchingRules[call.question] :
          /\ j < k
          /\ patterns[j].query_type # patterns[k].query_type
          /\ result.parsed_query.query_type = patterns[j].query_type

\* The rule list keeps the rules of the given query types before the rules
\* of the others.
Precede(before, after) ==
    \A j, k \in DOMAIN patterns :
        (patterns[j].query_type \in before /\ patterns[k].query_type \in after) => j < k

\* C15: for every course code X (letters, then digits), the text
\* "all prerequisites for X" is parsed as GET_ALL_PREREQUISITES, not as
\* GET_PREREQUISITES; every transitive-prerequisite rule and every compare
\* rule stands before the direct-prerequisite rule and the search rules.
C15_AllPrerequisitesIntent ==
    /\ Precede({"GET_ALL_PREREQUISITES", "COMPARE_COURSES"},
               {"GET_PREREQUISITES", "SEARCH_COURSES"})
    /\ (AskedMock /\ call.question \in CodeQuestions) =>
          result.parsed_query.query_type = "GET_ALL_PREREQUISITES"

\* "all prerequisites for X" was asked, and the direct-prerequisite rule
\* matches that text too.
C15_Witness ==
    /\ AskedMock
    /\ call.question \in CodeQuestions
    /\ \E k \in MatchingRules[call.question] : patterns[k].query_type = "GET_PREREQUISITES"
    /\ result.parsed_query.query_type = "GET_ALL_PREREQUISITES"

\* The positions of the rules whose pattern is found in the whole question.
RulesMatchingWhole ==
    [q \in Questions |->
        {k \in DOMAIN patterns : Search(patterns[k].regex, Chars(q)) # NoMatch}]

IsParsedQuery(p) ==
    DOMAIN p = {"original_question", "query_type", "parameters", "confidence"}

\* C16: parsing always yields a ParsedQuery; when no rule matches the
\* question it is the search intent, with confidence 0.5 and the full
\* question text as its query (compared without regard to case, which the
\* search ignores) or, on the path where no text could be taken from the
\* prompt, with confidence 0.3; when a rule matches the confidence is 0.85.
C16_ParseAlwaysProduces ==
    AskedMock =>
        /\ IsAgentResponse(result)
        /\ IsParsedQuery(result.parsed_query)
        /\ RulesMatchingWhole[call.question] = {} =>
              /\ result.parsed_query.query_type = "SEARCH_COURSES"
              /\ DOMAIN result.parsed_query.parameters = {"query"}
              /\ \/ result.parsed_query.confidence = 30
                 \/ /\ result.parsed_query.confidence = 50
                    /\ Lower(result.parsed_query.parameters.query) = Lower(call.question)
        /\ RulesMatchingWhole[call.question] # {} => result.parsed_query.confidence = 85

\* What the parser does guarantee: a ParsedQuery on one of three paths.  No
\* text between quotes could be taken from the prompt: empty search, 0.3.
\* No rule matches the text taken: search for that text, 0.5.  Otherwise 0.85.
ParseConfidencePaths ==
    AskedMock =>
        /\ IsAgentResponse(result)
        /\ IsParsedQuery(result.parsed_query)
        /\ QuestionText[call.question] = NoMatch =>
              /\ result.parsed_query.query_type = "SEARCH_COURSES"
              /\ result.parsed_query.parameters = [query |-> ""]
              /\ result.parsed_query.confidence = 30
        /\ (QuestionText[call.question] # NoMatch /\ MatchingRules[call.question] = {}) =>
              /\ result.parsed_query.query_type = "SEARCH_COURSES"
              /\ result.parsed_query.parameters
                    = [query |-> Str(QuestionText[call.question].text)]
              /\ result.parsed_query.confidence = 50
        /\ MatchingRules[call.question] # {} => result.parsed_query.confidence = 85

\* The text taken from the prompt is the question in lower case, when the
\* question is not empty and holds no quote character.
TextIsWholeQuestion ==
    \A q \in Questions :
        (q # "" /\ "\"" \notin Range(Chars(q))) =>
            (QuestionText[q] # NoMatch /\ QuestionText[q].text = Lower(q))

\* The response holds the parse and the result of executing exactly that
\* parse on the graph.
ComposesParseAndExecute(r) ==
    /\ IsAgentResponse(r)
    /\ IsParsedQuery(r.parsed_query)
    /\ DOMAIN r.reasoning_result = ReasoningResultFields
    /\ r.reasoning_result
          \in execute_query(graph, r.parsed_query.query_type, r.parsed_query.parameters)
    /\ r.reasoning_result.query_type = r.parsed_query.query_type

\* C17: for every question, ask returns a response holding the ParsedQuery
\* and the ReasoningResult of execute_query(parsed.query_type,
\* parsed.parameters), whose query_type is the parsed one; ask never ends
\* in an exception.
C17_AskAlwaysResponds == AskReturned => ComposesParseAndExecute(result)

\* With the MockLLMProvider in place ask does so for every question: the
\* empty one, those holding quotes, those naming nothing known.
AskWithMockResponds == AskedMock => ComposesParseAndExecute(result)

\* A malformed question was answered with a search that found nothing or
\* with a failed result.
MalformedQuestionAnswered ==
    /\ AskedMock
    /\ call.question \in {"", "\"hello\"", "say \"hi\" now", "prerequisites for XYZ999"}
    /\ ~result.reasoning_result.success

\* The ids the entries of a document define.
DefinedIds(d) ==
    {d.departments[i].id : i \in DOMAIN d.departments}
        \cup {d.faculty[i].id : i \in DOMAIN d.faculty}
        \cup {d.courses[i].id : i \in DOMAIN d.courses}

NodeKinds == {"department", "faculty", "course"}

\* The node is one the document defined, with a kind.
IsDefinedNode(n) ==
    /\ n \in DefinedIds(data)
    /\ get_node(graph, n) # NoNode
    /\ Get(get_node(graph, n), "type") \in NodeKinds

\* C18: in the graph of a loaded store both endpoints of every edge are
\* nodes the document defined, each with a kind; no edge leads to or from a
\* node the document does not define.
C18_EdgeEndpointsDefined ==
    \A e \in Edges(graph) : IsDefinedNode(e[1]) /\ IsDefinedNode(e[2])

\* The documents whose references all name defined ids do load into such a
\* graph.
ClosedDocumentsLoadClosed ==
    data \notin DanglingDocuments =>
        \A e \in Edges(graph) : IsDefinedNode(e[1]) /\ IsDefinedNode(e[2])

\* No entry of the document lacks a required key.
WellFormed(d) ==
    /\ \A i \in DOMAIN d.departments : Has(d.departments[i], {"id", "name", "code"})
    /\ \A i \in DOMAIN d.faculty : Has(d.faculty[i], {"id", "name", "title", "department"})
    /\ \A i \in DOMAIN d.courses :
          Has(d.courses[i], {"id", "code", "name", "credits", "level", "department"})
    /\ \A i \in DOMAIN d.prerequisites : Has(d.prerequisites[i], {"course", "requires"})

\* A store exists: construction returned, and queries are taken.
StoreExists == pc \in {"idle", "bfs", "returned"}

\* C19: a load that fails is fatal.  Once an entry has raised, construction
\* is over without a store; a store that takes queries exists only when
\* every entry was loaded, and its graph is the whole graph of the
\* document, never the part built before a failing entry.
C19_FailedLoadIsFatal ==
    /\ pc = "failed" => (~WellFormed(data) /\ result = Raised("KeyError")
                           /\ call.op = "load_data")
    /\ StoreExists => (WellFormed(data) /\ graph = build_graph(data))
    /\ ~WellFormed(data) => pc \in {"loading", "failed"}

\* A load failed after part of the graph had been built.
C19_Witness ==
    /\ pc = "failed"
    /\ graph.nodes # <<>>
    /\ \E e \in Universe \X Universe : graph.rel[e] # NoEdge

\* What the query that has returned gives on the graph as it was loaded.
AloneResults ==
    LET g == build_graph(data)
    IN CASE call.op = "execute_query" -> execute_query(g, call.query_type, call.params)
         [] call.op = "get_prerequisites" -> {ListResult(get_prerequisites(g, call.course_id))}
         [] call.op = "get_prerequisite_chain" ->
               {ListResult(get_prerequisite_chain(g, call.course_id))}
         [] call.op = "get_course_by_code" -> {get_course_by_code(g, call.code)}
         [] call.op = "can_take_course" ->
               {can_take_course(g, call.course_id, call.completed_courses)}
         [] call.op = "get_faculty_department" -> {get_faculty_department(g, call.faculty_id)}
         [] call.op = "get_faculty_by_department" ->
               {ListResult(get_faculty_by_department(g, call.dept_id))}
         [] call.op = "get_department_head" -> {get_department_head(g, call.dept_id)}
         [] call.op = "get_all_prerequisites" ->
               {ListResult(p) : p \in get_all_prerequisites_results(g, call.course_id)}

\* After whatever queries ran before it, a query returns what it returns
\* when run alone on the loaded graph.
SameAsAlone == pc = "returned" => result \in AloneResults

RECURSIVE GrowPaths(_, _)
GrowPaths(R, P) ==
    LET Q == {Append(x[1], x[2][2]) :
                 x \in {y \in P \X R : /\ y[2][1] = y[1][Len(y[1])]
                                        /\ y[2][2] \notin Range(y[1])}}
    IN IF Q = {} THEN P ELSE P \cup GrowPaths(R, Q)

\* The simple paths c -> p1 -> ... -> pk, k >= 1, written <<p1, ..., pk>>.
SimplePathsFrom(d, c) == {Tail(s) : s \in GrowPaths(PrereqPairs(d), {<<c>>}) \ {<<c>>}}

\* Those that no prerequisite pair extends to a longer simple path.
MaximalPathsFrom(d, c) ==
    {s \in SimplePathsFrom(d, c) :
        \A q \in PrereqPairs(d) : q[1] = s[Len(s)] => q[2] \in Range(s) \cup {c}}

Reverse(s) == [i \in DOMAIN s |-> s[Len(s) + 1 - i]]

ChainsReturned == pc = "returned" /\ call.op = "get_prerequisite_chain"

\* The chains of the result, each as the ids from the direct prerequisite
\* outwards.
ReturnedPaths == {Reverse(IdSeqOf(result.list[i])) : i \in DOMAIN result.list}

\* C21 as stated: for every simple path c -> p1 -> ... -> pk of prerequisite
\* edges, k >= 1, the result of get_prerequisite_chain(c) holds a chain made
\* of exactly the courses p1..pk.
C21_ChainForEverySimplePath ==
    ChainsReturned =>
        \A s \in SimplePathsFrom(data, call.course_id) :
            \E i \in DOMAIN result.list :
                /\ Len(result.list[i]) = Len(s)
                /\ IdsOf(result.list[i]) = Range(s)

\* C21, amended: the result of get_prerequisite_chain(c) holds one chain
\* for every simple path c -> p1 -> ... -> pk of prerequisite edges that no
\* prerequisite edge extends to a longer simple path, and no other chain;
\* the chain lists pk first and p1 last.
C21_ChainForEveryMaximalPath ==
    ChainsReturned =>
        /\ ReturnedPaths = MaximalPathsFrom(data, call.course_id)
        /\ Len(result.list) = Cardinality(MaximalPathsFrom(data, call.course_id))

\* The chains of a course with a path of two edges were returned, the path
\* to its first course being a simple path without a chain of its own.
C21_Witness ==
    /\ ChainsReturned
    /\ \E s \in ReturnedPaths : Len(s) >= 2 /\ <<s[1]>> \notin ReturnedPaths
    /\ ReturnedPaths = MaximalPathsFrom(data, call.course_id)

\* C22: every chain returned by get_prerequisite_chain(c) is a simple path
\* of prerequisite edges from c: no course twice, never c itself; the list
\* of chains is finite, on graphs with prerequisite cycles too.
C22_ChainsAreSimplePaths ==
    ChainsReturned =>
        \A i \in DOMAIN result.list :
            LET ids == IdSeqOf(result.list[i])
            IN /\ IsInjective(ids)
               /\ call.course_id \notin Range(ids)
               /\ Reverse(ids) \in SimplePathsFrom(data, call.course_id)

\* Chains were returned for a course that lies on a prerequisite cycle.
C22_Witness ==
    /\ ChainsReturned
    /\ call.course_id \in ReachableFrom(data, call.course_id)
    /\ result.list # <<>>
    /\ \A i \in DOMAIN result.list : call.course_id \notin IdsOf(result.list[i])

(***************************************************************************)
(* Lookup of a course by its code.                                         *)
(***************************************************************************)
\* Two spellings that differ at most in the case of their letters.
SameIgnoringCase(a, b) ==
    /\ Len(a) = Len(b)
    /\ \A i \in DOMAIN a : a[i] = b[i] \/ LowerChar(a[i]) = b[i] \/ a[i] = LowerChar(b[i])

\* The positions, in the courses of the loaded document, of the courses
\* whose code is `code` up to letter case.
CoursesCoded(code) ==
    {i \in DOMAIN data.courses : SameIgnoringCase(Chars(data.courses[i].code), Chars(code))}

CourseLookedUp == pc = "returned" /\ call.op = "get_course_by_code"

\* C23: get_course_by_code(code) returns the first course, in the order the
\* courses were loaded, whose code equals `code` ignoring letter case, and
\* nothing when no course carries that code; so "cs101" and "CS101" find the
\* same node.
C23_FirstCourseIgnoringCase ==
    CourseLookedUp =>
        /\ CoursesCoded(call.code) = {} => result = NoNode
        /\ CoursesCoded(call.code) # {} =>
              LET first == CHOOSE i \in CoursesCoded(call.code) :
                               \A j \in CoursesCoded(call.code) : i <= j
              IN /\ result # NoNode
                 /\ result["id"] = data.courses[first].id
                 /\ result["type"] = "course"
                 /\ result["code"] = data.courses[first].code
        /\ \A other \in LookupCodes :
              SameIgnoringCase(Chars(other), Chars(call.code)) =>
                  get_course_by_code(graph, other) = result

\* A lookup by a code written in another case than the course carries it,
\* carried by two courses, returned the earlier one.
C23_Witness ==
    /\ CourseLookedUp
    /\ Cardinality(CoursesCoded(call.code)) >= 2
    /\ result # NoNode
    /\ result["code"] # call.code
    /\ \E i \in CoursesCoded(call.code) : data.courses[i].id # result["id"]

(***************************************************************************)
(* Counting entities.                                                      *)
(***************************************************************************)
\* The kind of node each entity type of the count names.
CountedKind ==
    "course" :> "course" @@ "courses" :> "course" @@ "faculty" :> "faculty" @@
    "department" :> "department" @@ "departments" :> "department"

\* The entity types the count knows, prerequisite edges included.
KnownEntityTypes == DOMAIN CountedKind \cup {"prerequisite", "prerequisites"}

\* The nodes of the graph that carry the type `kind`.
NodesOfKind(kind) ==
    {n \in Range(graph.nodes) : GetOr(graph.attrs[n], "type", "") = kind}

\* A count was asked for with a string as entity type.
CountedString ==
    /\ Executed("COUNT_ENTITIES")
    /\ "entity_type" \in DOMAIN call.params
    /\ call.params.entity_type # None

\* C24: the count of "course"/"courses", "faculty" and
\* "department"/"departments" succeeds with the number of nodes of that
\* kind, and the count of an entity type the handler does not know succeeds
\* with 0 instead of failing.
C24_CountEntities ==
    CountedString =>
        /\ result.success
        /\ result.error_message = NoMessage
        /\ result.answer.entity_type = call.params.entity_type
        /\ call.params.entity_type \in DOMAIN CountedKind =>
              result.answer.count
                  = Cardinality(NodesOfKind(CountedKind[call.params.entity_type]))
        /\ (\A k \in KnownEntityTypes : Chars(k) # Lower(call.params.entity_type)) =>
              result.answer.count = 0

\* An entity type the handler does not know was counted as 0, on a graph
\* that holds courses.
C24_Witness ==
    /\ CountedString
    /\ call.params.entity_type \in {"student", "professor", ""}
    /\ result.success
    /\ result.answer.count = 0
    /\ NodesOfKind("course") # {}

\* The courses were counted on a graph that also holds a node without a type.
CountSkipsUntypedNode ==
    /\ CountedString
    /\ call.params.entity_type = "courses"
    /\ result.success
    /\ result.answer.count = Cardinality(NodesOfKind("course"))
    /\ result.answer.count > 0
    /\ \E n \in Range(graph.nodes) : "type" \notin DOMAIN graph.attrs[n]

(***************************************************************************)
(* The head of a department that has none.                                 *)
(***************************************************************************)
\* The department has no incoming heads edge.
Headless(d) == \A s \in Universe : graph.rel[<<s, d>>] # "heads"

\* The departments of the loaded document that a parameter value names, by
\* id or by code in any letter case.
DepartmentsNamed(v) ==
    IF v = None THEN {}
    ELSE {data.departments[i].id : i \in
             {j \in DOMAIN data.departments :
                 \/ data.departments[j].id = v
                 \/ SameIgnoringCase(Chars(data.departments[j].code), Chars(v))}}

HeadAskedOfStore == pc = "returned" /\ call.op = "get_department_head"
HeadAskedOfHandler ==
    /\ Executed("GET_DEPARTMENT_HEAD")
    /\ DOMAIN call.params # {}

\* C25: for a department without an incoming heads edge,
\* get_department_head returns nothing and does not raise, and the
\* GET_DEPARTMENT_HEAD handler asked about that department returns
\* success = true with a null answer, not a failure.
C25_HeadlessDepartment ==
    /\ (HeadAskedOfStore /\ call.dept_id \in IdsOf(data.departments)
            /\ Headless(call.dept_id)) =>
          result = NoNode
    /\ HeadAskedOfHandler =>
          \A d \in DepartmentsNamed(Or(Get(call.params, "code"), Get(call.params, "dept_id"))) :
              Headless(d) =>
                  /\ result.success
                  /\ result.answer = NoNode
                  /\ result.error_message = NoMessage

\* The handler was asked, by code, for the head of a department that the
\* document gives no head, and succeeded with a null answer.
C25_Witness ==
    /\ HeadAskedOfHandler
    /\ "code" \in DOMAIN call.params
    /\ \E d \in DepartmentsNamed(call.params.code) :
          /\ Headless(d)
          /\ \E i \in DOMAIN data.departments :
                data.departments[i].id = d /\ data.departments[i].faculty_head = Absent
    /\ result.success
    /\ result.answer = NoNode

\* The store was asked for the head of a department without a heads edge.
HeadlessAskedOfStore ==
    HeadAskedOfStore /\ Headless(call.dept_id) /\ result = NoNode

(***************************************************************************)
(* The kind of the node a handler resolves.                                *)
(***************************************************************************)
\* The kind of node the handlers of a query type resolve.
ResolvedKind(query_type) ==
    IF query_type \in CourseQueryTypes THEN "course"
    ELSE IF query_type \in FacultyQueryTypes THEN "faculty"
    ELSE "department"

\* The value of the identifying parameter of an entity-resolving call.
IdentifyingValue ==
    IF call.query_type \in CourseQueryTypes
    THEN Or(Get(call.params, "course_code"), Get(call.params, "course_id"))
    ELSE IF call.query_type \in FacultyQueryTypes
    THEN Or(Get(call.params, "name"), Get(call.params, "faculty_id"))
    ELSE Or(Get(call.params, "code"), Get(call.params, "dept_id"))

EntityHandlerReturned ==
    /\ pc = "returned"
    /\ call.op = "execute_query"
    /\ call.query_type \in CourseQueryTypes \cup FacultyQueryTypes \cup DepartmentQueryTypes

\* The ids the loaded document gives to entries of another kind than the
\* one the handler resolves.
IdsOfOtherKinds ==
    (IF ResolvedKind(call.query_type) = "course" THEN {} ELSE IdsOf(data.courses))
      \cup (IF ResolvedKind(call.query_type) = "faculty" THEN {} ELSE IdsOf(data.faculty))
      \cup (IF ResolvedKind(call.query_type) = "department" THEN {}
            ELSE IdsOf(data.departments))

\* C26: a handler that resolves a course, a faculty member or a department
\* succeeds only on a node of that kind, and answers the id of a node of
\* another kind with its 'not found' failure.
C26_ResolvesOwnKindOnly ==
    EntityHandlerReturned =>
        /\ result.success =>
              /\ result.reasoning_chain # <<>>
              /\ "type" \in DOMAIN result.reasoning_chain[1].outputs
              /\ result.reasoning_chain[1].outputs["type"] = ResolvedKind(call.query_type)
        /\ IdentifyingValue \in IdsOfOtherKinds =>
              /\ ~result.success
              /\ result.error_message # NoMessage
              /\ result.error_message.text
                    \in {"Course not found", "Faculty not found", "Department not found"}

\* A handler succeeded on the id of a node of another kind.
ResolvedOtherKind ==
    /\ EntityHandlerReturned
    /\ IdentifyingValue \in IdsOfOtherKinds
    /\ result.success

(***************************************************************************)
(* The completed courses of an eligibility question.                       *)
(***************************************************************************)
\* Eligibility questions, each with the course asked about and the courses
\* it reports as completed.
EligibilityTable ==
    <<[question |-> "Can I take CS301 if I completed CS101 and CS201?",
       target |-> "CS301", completed |-> {"CS101", "CS201"}],
      [question |-> "Can I take CS401 if I've only completed CS101 and MATH101?",
       target |-> "CS401", completed |-> {"CS101", "MATH101"}],
      [question |-> "can i take cs201 if i completed cs101",
       target |-> "CS201", completed |-> {"CS101"}],
      [question |-> "Can a student take CS402 if they completed CS401?",
       target |-> "CS402", completed |-> {"CS401"}]>>

EligibilityAsked ==
    AskedMock /\ \E i \in DOMAIN EligibilityTable : EligibilityTable[i].question = call.question

EligibilityOf(question) ==
    EligibilityTable[CHOOSE i \in DOMAIN EligibilityTable :
                        EligibilityTable[i].question = question]

\* C27: the parse of "can I take X ... completed Y1 ... Yn" is a
\* CAN_TAKE_COURSE query for X whose completed_courses are exactly the
\* upper-cased codes Y1..Yn: X is not among them and no Yi is missing.
C27_CompletedCoursesExcludeTarget ==
    EligibilityAsked =>
        LET asked == EligibilityOf(call.question)
            parameters == result.parsed_query.parameters
        IN /\ result.parsed_query.query_type = "CAN_TAKE_COURSE"
           /\ parameters.course_code = asked.target
           /\ asked.target \notin Range(parameters.completed_courses)
           /\ Range(parameters.completed_courses) = asked.completed

\* The question of the test suite, about CS401, was parsed with the two
\* completed courses it names.
CompletedCoursesOfCS401 ==
    /\ EligibilityAsked
    /\ EligibilityOf(call.question).target = "CS401"
    /\ result.parsed_query.parameters.completed_courses = <<"CS101", "MATH101">>

\* The course asked about was parsed as one of the completed courses.
TargetAmongCompleted ==
    /\ EligibilityAsked
    /\ result.parsed_query.parameters.course_code
          \in Range(result.parsed_query.parameters.completed_courses)

(***************************************************************************)
(* Faculty names that are only a title.                                    *)
(***************************************************************************)
\* The name left of each name the handlers are asked about once its leading
\* title is taken off.
WithoutHonorific ==
    "Smith" :> "Smith" @@ "Dr. Smith" :> "Smith" @@ "Prof. Garcia" :> "Garcia" @@
    "Nobody" :> "Nobody" @@ "Dr." :> "" @@ "Prof" :> "" @@ "dr" :> ""

FacultyAskedByName ==
    /\ pc = "returned"
    /\ call.op = "execute_query"
    /\ call.query_type \in FacultyQueryTypes
    /\ "name" \in DOMAIN call.params
    /\ call.params.name \in DOMAIN WithoutHonorific

\* C28: a faculty handler succeeds on a name only when the name without its
\* leading title is non-empty and is, ignoring case, part of the full name
\* of the faculty member it resolved; a name that is only a title ("Prof",
\* "Dr.") gets the 'Faculty not found' failure.
C28_HonorificAloneNotFound ==
    FacultyAskedByName =>
        LET rest == WithoutHonorific[call.params.name]
        IN /\ result.success =>
                 /\ rest # ""
                 /\ result.reasoning_chain # <<>>
                 /\ "name" \in DOMAIN result.reasoning_chain[1].outputs
                 /\ IsSubstring(Lower(rest), Lower(result.reasoning_chain[1].outputs["name"]))
           /\ call.params.name \in HonorificsAlone =>
                 /\ ~result.success
                 /\ result.error_message # NoMessage
                 /\ result.error_message.text = "Faculty not found"

\* A name that is only a title resolved to a faculty member.
HonorificAloneResolved ==
    /\ FacultyAskedByName
    /\ call.params.name \in HonorificsAlone
    /\ result.success
    /\ result.reasoning_chain[1].outputs["type"] = "faculty"

\* A name with a title resolved to the faculty member of that name.
TitledNameResolved ==
    /\ FacultyAskedByName
    /\ call.params.name = "Dr. Smith"
    /\ result.success
    /\ result.reasoning_chain[1].outputs["name"] = "Dr. Alice Smith"

\* A name that keeps something after its title resolves only to a faculty
\* member whose full name holds it.
ProperNameResolvesByName ==
    (FacultyAskedByName /\ call.params.name \notin HonorificsAlone /\ result.success) =>
        IsSubstring(Lower(WithoutHonorific[call.params.name]),
                    Lower(result.reasoning_chain[1].outputs["name"]))

(***************************************************************************)
(* The shape of a ReasoningResult.                                         *)
(***************************************************************************)
\* C29: every ReasoningResult returned by execute_query has success = false
\* exactly when its error_message is set, and a failed result has a null
\* answer (a successful one may have a null or empty answer too).
C29_ResultWellFormed ==
    ExecuteReturned =>
        /\ (~result.success) <=> (result.error_message # NoMessage)
        /\ ~result.success => result.answer = NoNode

\* A handler raised, and the failed result carries the message of the
\* exception and no answer.
C29_Witness ==
    /\ ExecuteReturned
    /\ HandlerRaised
    /\ ~result.success
    /\ result.error_message # NoMessage
    /\ result.answer = NoNode

\* A successful result with a null answer, and one with an empty answer.
SucceededWithNullAnswer ==
    ExecuteReturned /\ result.success /\ result.answer = NoNode
SucceededWithEmptyAnswer ==
    ExecuteReturned /\ result.success /\ result.answer = ListResult(<<>>)

(***************************************************************************)
(* The chains and the closure name the same prerequisites.                 *)
(***************************************************************************)
\* The ids of the courses that stand in at least one of the chains.
IdsInChains(chains) == UNION {IdsOf(chains[i]) : i \in DOMAIN chains}

\* C30: for every course c of every graph, cyclic or not, the courses that
\* stand in at least one chain of get_prerequisite_chain(c) are the courses
\* of get_all_prerequisites(c) without c itself.
C30_ChainsCoverClosure ==
    /\ ChainsReturned =>
          \A all \in get_all_prerequisites_results(graph, call.course_id) :
              IdsInChains(result.list) = IdsOf(all) \ {call.course_id}
    /\ AllPrerequisitesReturned =>
          IdsInChains(get_prerequisite_chain(graph, call.course_id))
              = IdsOf(result.list) \ {call.course_id}

\* The chains of a course on a cycle were returned: the closure holds the
\* course itself, and a course that is not a direct prerequisite.
C30_Witness ==
    /\ ChainsReturned
    /\ call.course_id \in all_prereq_ids(graph, call.course_id)
    /\ \E n \in IdsInChains(result.list) :
          n \notin IdsOf(get_prerequisites(graph, call.course_id))

\* The closure of a course with a transitive prerequisite was returned.
ClosureBeyondDirect ==
    /\ AllPrerequisitesReturned
    /\ IdsOf(result.list) \ IdsOf(get_prerequisites(graph, call.course_id)) # {}

====
